---- MODULE Spec2Model ----
(***************************************************************************)
(* Model of the fleur statistical-plotting library: the type inference     *)
(* (_infer_types), the input normalisation (_InputDataHandler) and the     *)
(* test-selection logic of BetweenStats and BarStats.                      *)
(*                                                                         *)
(* Every operation is a call: the action draws the arguments, runs the     *)
(* whole function or constructor and records what it did.  The run of a    *)
(* call is a "frame" record                                                *)
(*   self    the attributes assigned on the object so far (name -> value)  *)
(*   raised  the exception that ended the call, or NoExc                   *)
(*   warned  the warnings emitted, in order                                *)
(*   events  the steps taken that matter to ordering (helper and library   *)
(*           calls), in order                                              *)
(*   ret     the value returned (pure functions)                           *)
(* An object that lives on after its constructor (ScatterStats) keeps its  *)
(* attributes in self from one call to the next; history is then the set   *)
(* of outcomes, "<method> returned" or "<method> raised", of the methods   *)
(* called on it since it was built.                                        *)
(***************************************************************************)
EXTENDS Integers, Sequences, FiniteSets, TLC

VARIABLES call, self, raised, warned, events, ret, history

vars == <<call, self, raised, warned, events, ret, history>>

----------------------------------------------------------------------------
(* Bounds *)

\* Largest number of distinct values a column holds.
MaxCat == 3

----------------------------------------------------------------------------
(* Python values *)

\* A function with an empty domain: an object with no attribute, an empty
\* **kwargs dictionary.
Empty == [k \in {} |-> TRUE]

NoExc == [type |-> "none", msg |-> ""]

\* The tuple returned by a call that returns nothing of interest.
NoRet == <<>>

Frame0 == [self |-> Empty, raised |-> NoExc, warned |-> <<>>, events |-> <<>>,
           ret |-> NoRet]

Raise(st, type, msg) == [st EXCEPT !.raised = [type |-> type, msg |-> msg]]

Warn(st, msg) == [st EXCEPT !.warned = Append(@, msg)]

Event(st, e) == [st EXCEPT !.events = Append(@, e)]

\* d[k] = v on a dictionary: the key is added or its value replaced.
Put(d, k, v) == [n \in DOMAIN d \cup {k} |-> IF n = k THEN v ELSE d[n]]

SetAttr(st, name, val) == [st EXCEPT !.self = Put(@, name, val)]

HasAttr(obj, name) == name \in DOMAIN obj

Ok(st) == st.raised = NoExc

\* narwhals dtypes of a column.
CategoricalDtypes == {"Categorical", "Enum", "String"}

NumericDtypes == {"Int64", "Float64"}

OtherDtypes == {"Boolean", "Datetime"}

Dtypes == CategoricalDtypes \cup NumericDtypes \cup OtherDtypes

\* A column of data, as far as the code looks at it: its dtype and the
\* number of distinct values it holds (0 for an empty column).
Cols(dtypes) == [dtype : dtypes, n_unique : 0..MaxCat]

\* Two columns of one table have the same length: both empty or neither.
SameTable(cx, cy) == (cx.n_unique = 0) <=> (cy.n_unique = 0)

Str(s) == [kind |-> "str", s |-> s]

\* name "" stands for a Series without a name (None).
Series(name, col) == [kind |-> "series", name |-> name, col |-> col]

Array(kind, col) == [kind |-> kind, col |-> col]

\* A value that is no string, no Series and no array-like (an int, a dict).
Other == [kind |-> "other"]

\* data=None
None == [kind |-> "None"]

\* A dataframe: its columns by name.
DataFrame(columns) == [kind |-> "dataframe", columns |-> columns]

ArrayKinds == {"list", "tuple", "ndarray"}

----------------------------------------------------------------------------
(* fleur/_utils/infer_types.py *)

is_categorical(column_name, schema) == schema[column_name] \in CategoricalDtypes

is_numerical(column_name, schema) ==
    schema[column_name] \in NumericDtypes /\ ~is_categorical(column_name, schema)

InferKeyErrorMsg ==
    "Either both columns are categorical or both are numerical. Function requires one categorical and one numerical column."

\* Mutant of infer_types: the second branch returns the names unswapped.
infer_types_no_swap(x, y, schema) ==
    IF x \notin DOMAIN schema \/ y \notin DOMAIN schema
    THEN [raised |-> [type |-> "KeyError", msg |-> "column"], ret |-> NoRet]
    ELSE IF is_categorical(x, schema) /\ is_numerical(y, schema)
         THEN [raised |-> NoExc, ret |-> <<x, y>>]
         ELSE IF is_numerical(x, schema) /\ is_categorical(y, schema)
              THEN [raised |-> NoExc, ret |-> <<x, y>>]
              ELSE [raised |-> [type |-> "KeyError", msg |-> InferKeyErrorMsg],
                    ret |-> NoRet]

\* _infer_types(x, y, df), df seen through df.schema (column name -> dtype).
\* A column name that is not in the schema ends in the KeyError of the
\* schema lookup.
infer_types(x, y, schema) ==
    IF x \notin DOMAIN schema \/ y \notin DOMAIN schema
    THEN [raised |-> [type |-> "KeyError", msg |-> "column"], ret |-> NoRet]
    ELSE IF is_categorical(x, schema) /\ is_numerical(y, schema)
         THEN [raised |-> NoExc, ret |-> <<x, y>>]
         ELSE IF is_numerical(x, schema) /\ is_categorical(y, schema)
              THEN [raised |-> NoExc, ret |-> <<y, x>>]
              ELSE [raised |-> [type |-> "KeyError", msg |-> InferKeyErrorMsg],
                    ret |-> NoRet]

\* The schema of a dataframe.
Schema(df) == [c \in DOMAIN df.columns |-> df.columns[c].dtype]

----------------------------------------------------------------------------
(* fleur/_utils/input_data_handling.py *)

\* Messages are the source's, without the backquotes around argument names.
MsgDataMissing == "If x and y are strings, data argument must be passed."

MsgNotFound == "x and/or y not found in data columns."

\* self.dataframe[x] for a name that is no column.
MsgNoColumn == "column not found"

MsgBothTypes ==
    "x and y must be both strings (column names), both Series, or both array-like."

\* narwhals.dependencies.is_into_series
is_into_series(obj) == obj.kind = "series"

\* Mutant of _is_array_like: tuples are left out.
_is_array_like_no_tuple(obj) == obj.kind \in {"list", "ndarray"}

\* isinstance(obj, (list, tuple)) or is_numpy_array(obj)
_is_array_like(obj) == obj.kind \in ArrayKinds

\* x.name or "x"
NameOr(series, default) == IF series.name = "" THEN default ELSE series.name

\* nw.from_dict({x_name: x, y_name: y}): a dict literal, so with equal keys
\* the later entry is the one kept.
from_dict(x_name, x, y_name, y) ==
    DataFrame(Put(Put(Empty, x_name, x), y_name, y))

SetAll(st, dataframe, x, y, x_name, y_name, source) ==
    SetAttr(SetAttr(SetAttr(SetAttr(SetAttr(SetAttr(st,
        "dataframe", dataframe), "x", x), "y", y),
        "x_name", x_name), "y_name", y_name), "source", source)

\* Mutant of ColumnsMissing: "and" for "or".
ColumnsMissingBoth(x, y, data) ==
    x.s \notin DOMAIN data.columns /\ y.s \notin DOMAIN data.columns

\* x not in data.columns or y not in data.columns (line 13)
ColumnsMissing(x, y, data) ==
    x.s \notin DOMAIN data.columns \/ y.s \notin DOMAIN data.columns

\* _InputDataHandler.__init__(x, y, data)
InputDataHandler(st, x, y, data) ==
    IF x.kind = "str" /\ y.kind = "str"
    THEN IF data.kind = "None"
         THEN Raise(st, "ValueError", MsgDataMissing)
         ELSE IF ColumnsMissing(x, y, data)
              THEN Raise(st, "ValueError", MsgNotFound)
              ELSE IF x.s \in DOMAIN data.columns /\ y.s \in DOMAIN data.columns
                   THEN SetAll(st, data, data.columns[x.s], data.columns[y.s],
                               x.s, y.s, "dataframe")
                   ELSE Raise(SetAttr(st, "dataframe", data), "KeyError",
                              MsgNoColumn)
    ELSE IF is_into_series(x) /\ is_into_series(y)
         THEN SetAll(st, from_dict(NameOr(x, "x"), x.col, NameOr(y, "y"), y.col),
                     x.col, y.col, NameOr(x, "x"), NameOr(y, "y"), "series")
         ELSE IF _is_array_like(x) /\ _is_array_like(y)
              THEN SetAll(st, from_dict("x", x.col, "y", y.col),
                          x.col, y.col, "x", "y", "array")
              ELSE Raise(st, "TypeError", MsgBothTypes)

----------------------------------------------------------------------------
(* scipy.stats, as far as fleur/betweenstats.py depends on it *)

\* The keyword arguments each test function takes among those the callers
\* pass through **kwargs.  Whether f_oneway takes equal_var depends on the
\* scipy release installed: f_oneway_equal_var says which one it is.
Accepted(fn, f_oneway_equal_var) ==
    CASE fn = "ttest_ind" -> {"equal_var", "trim"}
      [] fn = "f_oneway" -> IF f_oneway_equal_var THEN {"equal_var"} ELSE {}
      [] OTHER -> {}

\* The result objects that carry a df attribute (TtestResult).
HasDf(fn) == fn \in {"ttest_rel", "ttest_ind"}

MsgUnexpectedKw == "got an unexpected keyword argument"

MsgTrimRange == "Trimming percentage should be 0 <= trim < .5."

\* The trim values st.ttest_ind takes: a proportion in [0, 0.5), in percent
\* here.
TrimInRange(kwargs) ==
    "trim" \in DOMAIN kwargs => (0 <= kwargs["trim"] /\ kwargs["trim"] < 50)

\* self.test_output = st.<fn>(..., **kwargs): a keyword the function does
\* not take is a TypeError, a trim out of range a ValueError.
CallTest(st, fn, kwargs, lib) ==
    IF ~(DOMAIN kwargs \subseteq Accepted(fn, lib))
    THEN Raise(Event(st, fn), "TypeError", MsgUnexpectedKw)
    ELSE IF ~TrimInRange(kwargs)
         THEN Raise(Event(st, fn), "ValueError", MsgTrimRange)
         ELSE SetAttr(Event(st, fn), "test_output",
                      [fn |-> fn, has_df |-> HasDf(fn)])

TestFns == {"ttest_rel", "ttest_ind", "wilcoxon", "mannwhitneyu", "f_oneway",
            "kruskal", "chi2_contingency", "fisher_exact"}

\* The statistical tests a call ran, in order.
TestsRun(evs) == SelectSeq(evs, LAMBDA e : e \in TestFns)

----------------------------------------------------------------------------
(* fleur/betweenstats.py *)

valid_approachs == {"parametric", "nonparametric", "robust", "bayes"}

MsgApproach == "approach must be one of"

MsgTrimNotRobust ==
    "Using trim argument without expliciting approach=robust is not recommended."

MsgTwoCategories ==
    "You must have at least 2 distinct categories in your category column"

MsgPairedOnly ==
    "Only approach=parametric and approach=nonparametric have been implemented for paired samples."

MsgIndependentOnly ==
    "Only approach=parametric, approach=nonparametric and approach=robust have been implemented for independant samples."

MsgRobustNoTrim ==
    "Setting approach='robust' without setting a value of trim above 0 is equivalent of using default approach='parametric'. Remove approach='robust' or set a value of trim to hide this warning."

MsgRepeated == "Repeated measures ANOVA has not been implemented yet."

MsgWelchAnova == "Welch's ANOVA is not implemented yet."

MsgOnlyTwo == "Only approach=parametric and approach=nonparametric are implemented."

\* Two assignments after a test call that returned.
Named(st, letter, name) ==
    IF Ok(st) THEN SetAttr(SetAttr(st, "_letter", letter), "name", name) ELSE st

\* Mutant of StudentOrWelch: without equal_var the name is Welch.
StudentOrWelchDefaultWelch(kwargs) ==
    IF "equal_var" \in DOMAIN kwargs
    THEN IF kwargs["equal_var"] THEN "Student" ELSE "Welch"
    ELSE "Welch"

\* Mutant of StudentOrWelch: the presence of equal_var is taken for its value.
StudentOrWelchPresence(kwargs) ==
    IF "equal_var" \in DOMAIN kwargs THEN "Welch" ELSE "Student"

\* The name of the independent-samples t-test (lines 145-152).
StudentOrWelch(kwargs) ==
    IF "equal_var" \in DOMAIN kwargs
    THEN IF kwargs["equal_var"] THEN "Student" ELSE "Welch"
    ELSE "Student"

\* Mutant of RobustWarn: trim = 0 does not warn.
RobustWarnNegativeOnly(st, kwargs) ==
    IF "trim" \notin DOMAIN kwargs
    THEN Warn(st, MsgRobustNoTrim)
    ELSE IF kwargs["trim"] < 0 THEN Warn(st, MsgRobustNoTrim) ELSE st

\* The warning of approach="robust" (lines 160-172).
RobustWarn(st, kwargs) ==
    IF "trim" \notin DOMAIN kwargs
    THEN Warn(st, MsgRobustNoTrim)
    ELSE IF kwargs["trim"] <= 0 THEN Warn(st, MsgRobustNoTrim) ELSE st

\* Mutant of FitTwoTest: independent samples have no robust branch.
FitTwoTestNoRobust(st, paired, approach, kwargs, lib) ==
    IF paired
    THEN IF approach = "parametric"
         THEN Named(CallTest(st, "ttest_rel", kwargs, lib), "t", "Paired t-test")
         ELSE IF approach = "nonparametric"
              THEN Named(CallTest(st, "wilcoxon", kwargs, lib), "T", "Wilcoxon")
              ELSE Raise(st, "NotImplementedError", MsgPairedOnly)
    ELSE IF approach = "parametric"
         THEN Named(CallTest(st, "ttest_ind", kwargs, lib), "t",
                    StudentOrWelch(kwargs))
         ELSE IF approach = "nonparametric"
              THEN Named(CallTest(st, "mannwhitneyu", kwargs, lib), "U",
                         "Mann-Whitney")
              ELSE Raise(st, "NotImplementedError", MsgIndependentOnly)

\* n_cat == 2, the choice of the test (lines 119-185).
FitTwoTest(st, paired, approach, kwargs, lib) ==
    IF paired
    THEN IF approach = "parametric"
         THEN Named(CallTest(st, "ttest_rel", kwargs, lib), "t", "Paired t-test")
         ELSE IF approach = "nonparametric"
              THEN Named(CallTest(st, "wilcoxon", kwargs, lib), "T", "Wilcoxon")
              ELSE Raise(st, "NotImplementedError", MsgPairedOnly)
    ELSE IF approach = "parametric"
         THEN Named(CallTest(st, "ttest_ind", kwargs, lib), "t",
                    StudentOrWelch(kwargs))
         ELSE IF approach = "nonparametric"
              THEN Named(CallTest(st, "mannwhitneyu", kwargs, lib), "U",
                         "Mann-Whitney")
              ELSE IF approach = "robust"
                   THEN Named(CallTest(RobustWarn(st, kwargs), "ttest_ind",
                                       kwargs, lib), "t", "Yuen")
                   ELSE Raise(st, "NotImplementedError", MsgIndependentOnly)

\* n_cat == 2, after the test (lines 187-197).
FitTwoStats(st) ==
    LET s1 == SetAttr(SetAttr(st, "statistic", "float"), "pvalue", "float")
    IN  IF s1.self["test_output"].has_df
        THEN SetAttr(SetAttr(s1, "dof", "int"), "main_stat", "t_Student(dof)")
        ELSE LET s2 == SetAttr(s1, "dof", "None")
             IN  IF s2.self["name"] = "Wilcoxon"
                 THEN SetAttr(s2, "_letter", "W")
                 ELSE IF s2.self["name"] = "Mann-Whitney"
                      THEN SetAttr(s2, "_letter", "U")
                      ELSE s2

FitTwo(st, paired, approach, kwargs, lib) ==
    LET s1 == FitTwoTest(SetAttr(st, "is_ANOVA", FALSE), paired, approach,
                         kwargs, lib)
    IN  IF Ok(s1) THEN FitTwoStats(s1) ELSE s1

\* Mutant of FitManyParametric: the test runs before equal_var is looked at.
FitManyParametricTestFirst(st, kwargs, lib) ==
    LET s1 == CallTest(st, "f_oneway", kwargs, lib)
        s2 == IF ~Ok(s1)
              THEN s1
              ELSE IF "equal_var" \in DOMAIN kwargs
                   THEN IF ~kwargs["equal_var"]
                        THEN Raise(s1, "NotImplementedError", MsgWelchAnova)
                        ELSE s1
                   ELSE SetAttr(s1, "name", "One-way")
    IN  IF Ok(s2) THEN SetAttr(s2, "_letter", "F") ELSE s2

\* n_cat >= 3, approach="parametric" (lines 206-215).
FitManyParametric(st, kwargs, lib) ==
    LET s1 == IF "equal_var" \in DOMAIN kwargs
              THEN IF ~kwargs["equal_var"]
                   THEN Raise(st, "NotImplementedError", MsgWelchAnova)
                   ELSE st
              ELSE SetAttr(st, "name", "One-way")
        s2 == IF Ok(s1) THEN CallTest(s1, "f_oneway", kwargs, lib) ELSE s1
    IN  IF Ok(s2) THEN SetAttr(s2, "_letter", "F") ELSE s2

\* Mutant of FitManyTest: the approach is looked at before paired.
FitManyTestApproachFirst(st, paired, approach, kwargs, lib) ==
    IF approach \notin {"parametric", "nonparametric"}
    THEN Raise(st, "NotImplementedError", MsgOnlyTwo)
    ELSE IF paired
         THEN Raise(st, "NotImplementedError", MsgRepeated)
         ELSE IF approach = "parametric"
              THEN FitManyParametric(st, kwargs, lib)
              ELSE Named(CallTest(st, "kruskal", kwargs, lib), "H",
                         "Kruskal-Wallis")

\* n_cat >= 3, the choice of the test (lines 201-223).
FitManyTest(st, paired, approach, kwargs, lib) ==
    IF paired
    THEN Raise(st, "NotImplementedError", MsgRepeated)
    ELSE IF approach = "parametric"
         THEN FitManyParametric(st, kwargs, lib)
         ELSE IF approach = "nonparametric"
              THEN Named(CallTest(st, "kruskal", kwargs, lib), "H",
                         "Kruskal-Wallis")
              ELSE Raise(st, "NotImplementedError", MsgOnlyTwo)

\* n_cat >= 3, after the test (lines 224-230).
FitManyStats(st) ==
    SetAttr(SetAttr(SetAttr(SetAttr(SetAttr(st,
        "statistic", "float"), "pvalue", "float"),
        "dof_between", "int"), "dof_within", "int"), "main_stat", "F(dof)")

FitMany(st, paired, approach, kwargs, lib) ==
    LET s1 == FitManyTest(SetAttr(st, "is_ANOVA", TRUE), paired, approach,
                          kwargs, lib)
    IN  IF Ok(s1) THEN FitManyStats(s1) ELSE s1

\* Reading an attribute that was never assigned.
MsgNoAttribute == "'BetweenStats' object has no attribute"

\* The annotation (lines 232-241): it reads self._letter and self.name.
FitExpression(st) ==
    IF ~HasAttr(st.self, "_letter") \/ ~HasAttr(st.self, "name")
    THEN Raise(st, "AttributeError", MsgNoAttribute)
    ELSE SetAttr(SetAttr(st, "main_stat", <<st.self["_letter"], st.self["name"]>>),
                 "_expression", <<"$", st.self["_letter"], st.self["name"], "$">>)

\* Mutant of TooFewCategories: one category is let through.
TooFewCategoriesOffByOne(n_cat) == n_cat < 1

\* self.n_cat < 2 (line 112)
TooFewCategories(n_cat) == n_cat < 2

\* Mutant of BetweenFit: the trim warning comes after the test has returned.
BetweenFitWarnLast(st, approach, kwargs, lib) ==
    LET s2 == IF TooFewCategories(st.self["n_cat"])
              THEN Raise(st, "ValueError", MsgTwoCategories)
              ELSE IF st.self["n_cat"] = 2
                   THEN FitTwo(st, st.self["is_paired"], approach, kwargs, lib)
                   ELSE FitMany(st, st.self["is_paired"], approach, kwargs, lib)
        s3 == IF Ok(s2) /\ "trim" \in DOMAIN kwargs /\ approach # "robust"
              THEN Warn(s2, MsgTrimNotRobust)
              ELSE s2
    IN  IF Ok(s3) THEN FitExpression(s3) ELSE s3

\* BetweenStats._fit(approach, **kwargs)
BetweenFit(st, approach, kwargs, lib) ==
    LET s1 == IF "trim" \in DOMAIN kwargs /\ approach # "robust"
              THEN Warn(st, MsgTrimNotRobust)
              ELSE st
        s2 == IF TooFewCategories(s1.self["n_cat"])
              THEN Raise(s1, "ValueError", MsgTwoCategories)
              ELSE IF s1.self["n_cat"] = 2
                   THEN FitTwo(s1, s1.self["is_paired"], approach, kwargs, lib)
                   ELSE FitMany(s1, s1.self["is_paired"], approach, kwargs, lib)
    IN  IF Ok(s2) THEN FitExpression(s2) ELSE s2

\* The part of __init__ after the input handling (lines 77-93).  The lists
\* of values, sample sizes, labels and means are derived data that _fit
\* hands to the test functions; n_cat is the one it branches on.
BetweenSetup(st, paired, approach, kwargs, lib) ==
    LET info == st.self["_data_info"]
        s1 == SetAttr(st, "is_paired", paired)
        it == infer_types(info["x_name"], info["y_name"],
                          Schema(info["dataframe"]))
        s2 == Event(s1, "_infer_types")
    IN  IF it.raised # NoExc
        THEN [s2 EXCEPT !.raised = it.raised]
        ELSE BetweenFit(
                 SetAttr(SetAttr(SetAttr(s2, "_cat_col", it.ret[1]),
                     "_num_col", it.ret[2]),
                     "n_cat", info["dataframe"].columns[it.ret[1]].n_unique),
                 approach, kwargs, lib)

\* Mutant of BetweenStats: approach is validated after the input handling.
BetweenStatsLateCheck(x, y, data, paired, approach, kwargs, lib) ==
    LET h == InputDataHandler(Frame0, x, y, data)
        s1 == Event(Frame0, "_InputDataHandler")
    IN  IF ~Ok(h)
        THEN [s1 EXCEPT !.raised = h.raised]
        ELSE IF approach \notin valid_approachs
             THEN Raise(s1, "ValueError", MsgApproach)
             ELSE BetweenSetup(SetAttr(s1, "_data_info", h.self), paired,
                               approach, kwargs, lib)

\* BetweenStats.__init__(x, y, data, paired, approach, **kwargs)
BetweenStats(x, y, data, paired, approach, kwargs, lib) ==
    IF approach \notin valid_approachs
    THEN Raise(Frame0, "ValueError", MsgApproach)
    ELSE LET h == InputDataHandler(Frame0, x, y, data)
             s1 == Event(Frame0, "_InputDataHandler")
         IN  IF ~Ok(h)
             THEN [s1 EXCEPT !.raised = h.raised]
             ELSE BetweenSetup(SetAttr(s1, "_data_info", h.self), paired,
                               approach, kwargs, lib)

----------------------------------------------------------------------------
(* fleur/barstats.py *)

bar_valid_approachs == {"freq", "bayes"}

MsgPairedGroups == "Paired group comparison has not been implemented yet."

MsgOnlyFreq == "Only approach=freq has been implemented."

MsgFisherShape == "The input table must be of shape (2, 2)."

\* The expected frequency below which the chi-square assumptions count as
\* violated.
FisherThreshold == 5

\* The Fisher branch of _fit (lines 135-165).  fisher_rxc: whether the scipy
\* release installed computes Fisher's exact test on tables larger than 2x2.
BarFisher(st, is_2x2, fisher_rxc) ==
    LET s1 == SetAttr(SetAttr(SetAttr(SetAttr(st,
                  "test_name", "Fisher's exact"), "_letter", "p"),
                  "cramers_v", "None"), "statistic", "None")
        s2 == Event(s1, "fisher_exact")
    IN  IF ~is_2x2 /\ ~fisher_rxc
        THEN Raise(s2, "ValueError", MsgFisherShape)
        ELSE LET s3 == SetAttr(s2, "pvalue", "float")
             IN  IF is_2x2
                 THEN SetAttr(SetAttr(SetAttr(s3, "odds_ratio", "float"),
                          "main_stat", "OR"),
                          "expression", <<"$", "Fisher", "p =", "OR", "n_{obs}", "$">>)
                 ELSE SetAttr(SetAttr(SetAttr(SetAttr(s3, "odds_ratio", "None"),
                          "prob_dens", "float"), "main_stat", "p"),
                          "expression",
                          <<"$", "Fisher", "Likelihood", "p =", "n_{obs}", "$">>)

MsgZeroDivision == "float division by zero"

\* Mutant of BarChiSquare: cramers_v is left out.
BarChiSquareNoCramers(st) ==
    SetAttr(SetAttr(SetAttr(SetAttr(SetAttr(SetAttr(SetAttr(SetAttr(st,
        "test_output", [fn |-> "chi2_contingency", has_df |-> FALSE]),
        "statistic", "float"), "pvalue", "float"), "dof", "int"),
        "test_name", "Chi-square"), "_letter", "chi2"),
        "main_stat", "chi2_Pearson(dof)"),
        "expression", <<"$", "chi2_Pearson(dof)", "p =", "V_{Cramer}", "n_{obs}", "$">>)

\* The chi-square branch of _fit (lines 167-187).  For a table with one row
\* or one column chi2_contingency returns the float 0.0 as the statistic
\* (no degree of freedom) and min_dim is 0: the division of line 179 raises.
BarChiSquare(st) ==
    LET s1 == SetAttr(SetAttr(SetAttr(SetAttr(SetAttr(SetAttr(SetAttr(st,
                  "test_output", [fn |-> "chi2_contingency", has_df |-> FALSE]),
                  "statistic", "float"), "pvalue", "float"), "dof", "int"),
                  "test_name", "Chi-square"), "_letter", "chi2"),
                  "main_stat", "chi2_Pearson(dof)")
        table_shape == st.self["contingency_table"]
        min_dim == (IF table_shape[1] < table_shape[2]
                    THEN table_shape[1] ELSE table_shape[2]) - 1
    IN  IF min_dim = 0
        THEN Raise(s1, "ZeroDivisionError", MsgZeroDivision)
        ELSE SetAttr(SetAttr(s1, "cramers_v", "float"),
                 "expression",
                 <<"$", "chi2_Pearson(dof)", "p =", "V_{Cramer}", "n_{obs}", "$">>)

\* BarStats._fit(approach), min_expected being the smallest of the expected
\* frequencies chi2_contingency returns.
BarFit(st, approach, min_expected, fisher_rxc) ==
    IF approach = "freq"
    THEN IF st.self["is_paired"]
         THEN Raise(st, "NotImplementedError", MsgPairedGroups)
         ELSE LET s1 == SetAttr(Event(st, "chi2_contingency"),
                                "expected_frequencies", min_expected)
                  is_2x2 == st.self["contingency_table"] = <<2, 2>>
                  is_chi2_assumption_violated == min_expected < FisherThreshold
              IN  IF is_2x2 \/ is_chi2_assumption_violated
                  THEN BarFisher(s1, is_2x2, fisher_rxc)
                  ELSE BarChiSquare(s1)
    ELSE Raise(st, "NotImplementedError", MsgOnlyFreq)

\* BarStats.__init__(x, y, data, approach, paired, thres_fisher); the
\* contingency table is kept as its shape.
BarStats(x, y, data, approach, paired, thres_fisher, min_expected, fisher_rxc) ==
    IF approach \notin bar_valid_approachs
    THEN Raise(Frame0, "ValueError", MsgApproach)
    ELSE LET h == InputDataHandler(Frame0, x, y, data)
             s1 == Event(Frame0, "_InputDataHandler")
         IN  IF ~Ok(h)
             THEN [s1 EXCEPT !.raised = h.raised]
             ELSE LET info == h.self
                      df == info["dataframe"]
                      n_cat == df.columns[info["x_name"]].n_unique
                      n_levels == df.columns[info["y_name"]].n_unique
                  IN  BarFit(
                          SetAttr(SetAttr(SetAttr(SetAttr(SetAttr(s1,
                              "_data_info", info), "is_paired", paired),
                              "n_cat", n_cat), "n_levels", n_levels),
                              "contingency_table", <<n_cat, n_levels>>),
                          approach, min_expected, fisher_rxc)

----------------------------------------------------------------------------
(* The arguments the calls are made with *)

ColNames == {"a", "b", "c"}

\* Schemas of dataframes with the columns a and b.
Schemas == [{"a", "b"} -> Dtypes]

\* "" is a Series without a name.
SeriesNames == {"", "a", "x", "y"}

HandlerCols == {[dtype |-> "String", n_unique |-> 2],
                [dtype |-> "Float64", n_unique |-> MaxCat]}

HandlerValues ==
    {Str(s) : s \in ColNames}
    \cup {Series(n, c) : n \in SeriesNames, c \in HandlerCols}
    \cup {Array(k, c) : k \in ArrayKinds, c \in HandlerCols}
    \cup {Other}

HandlerData ==
    {None}
    \cup {DataFrame(cols) : cols \in [{"a", "b"} -> HandlerCols]}
    \cup {DataFrame(cols) : cols \in [{"a", "c"} -> HandlerCols]}

\* **kwargs of BetweenStats: equal_var and trim, each given or not.
EqualVarKwargs == {Empty} \cup {("equal_var" :> b) : b \in BOOLEAN}

\* trim is a proportion, kept in percent.
TrimKwargs == {Empty} \cup {("trim" :> t) : t \in {0, 20}}

Kwargs == {ev @@ tr : ev \in EqualVarKwargs, tr \in TrimKwargs}

BetweenDtypes == {"String", "Categorical", "Float64", "Boolean"}

\* (x, y, data) of a BetweenStats call: two Series of one table, column names
\* with a dataframe or without, arrays, and arguments of the wrong types.
BetweenArgs ==
    {<<Series("a", cx), Series("b", cy), None>> :
        <<cx, cy>> \in {p \in Cols(BetweenDtypes) \X Cols(BetweenDtypes) :
                           SameTable(p[1], p[2])}}
    \cup {<<Str("a"), Str("b"), d>> : d \in HandlerData}
    \cup {<<Array("list", cx), Array("ndarray", cy), None>> :
             cx \in HandlerCols, cy \in HandlerCols}
    \cup {<<Str("a"), Series("b", c), None>> : c \in HandlerCols}
    \cup {<<Other, Other, None>>}

Approaches == valid_approachs \cup bar_valid_approachs \cup {"fisher", "invalid"}

\* Columns of a BarStats call: never empty.
BarCols == {c \in Cols({"String", "Int64"}) : c.n_unique >= 1}

BarArgs ==
    {<<Series("a", cx), Series("b", cy), None>> : cx \in BarCols, cy \in BarCols}
    \cup {<<Str("a"), Str("b"), d>> : d \in HandlerData}
    \cup {<<Str("a"), Series("b", c), None>> : c \in HandlerCols}

\* Smallest expected frequencies of a contingency table: below, at and above
\* the threshold.
MinExpected == {FisherThreshold - 4, FisherThreshold, FisherThreshold + 2}

----------------------------------------------------------------------------
(* The calls *)

Init ==
    /\ call = [op |-> "none"]
    /\ self = Empty
    /\ raised = NoExc
    /\ warned = <<>>
    /\ events = <<>>
    /\ ret = NoRet
    /\ history = {}

\* No call has been made yet.  The calls share no state (each builds a new
\* object from its arguments), so a behaviour is one call from the initial
\* state.
Idle == call.op = "none"

InferTypesCall ==
    /\ Idle
    /\ \E x \in ColNames, y \in ColNames, schema \in Schemas :
        LET r == infer_types(x, y, schema)
        IN  /\ call' = [op |-> "_infer_types", x |-> x, y |-> y,
                        schema |-> schema]
            /\ self' = Empty
            /\ raised' = r.raised
            /\ warned' = <<>>
            /\ events' = <<>>
            /\ ret' = r.ret
            /\ history' = {}

InputDataHandlerCall ==
    /\ Idle
    /\ \E x \in HandlerValues, y \in HandlerValues, data \in HandlerData :
        LET st == InputDataHandler(Frame0, x, y, data)
        IN  /\ call' = [op |-> "_InputDataHandler", x |-> x, y |-> y,
                        data |-> data]
            /\ self' = st.self
            /\ raised' = st.raised
            /\ warned' = st.warned
            /\ events' = st.events
            /\ ret' = st.ret
            /\ history' = {}

BetweenStatsCall ==
    /\ Idle
    /\ \E a \in BetweenArgs, paired \in BOOLEAN, approach \in Approaches,
       kwargs \in Kwargs, f_oneway_equal_var \in BOOLEAN :
        LET st == BetweenStats(a[1], a[2], a[3], paired, approach, kwargs,
                               f_oneway_equal_var)
        IN  /\ call' = [op |-> "BetweenStats", x |-> a[1], y |-> a[2],
                        data |-> a[3], paired |-> paired,
                        approach |-> approach, kwargs |-> kwargs,
                        f_oneway_equal_var |-> f_oneway_equal_var]
            /\ self' = st.self
            /\ raised' = st.raised
            /\ warned' = st.warned
            /\ events' = st.events
            /\ ret' = st.ret
            /\ history' = {}

BarStatsCall ==
    /\ Idle
    /\ \E a \in BarArgs, paired \in BOOLEAN, approach \in Approaches,
       thres_fisher \in {0, FisherThreshold}, min_expected \in MinExpected,
       fisher_rxc \in BOOLEAN :
        LET st == BarStats(a[1], a[2], a[3], approach, paired, thres_fisher,
                           min_expected, fisher_rxc)
        IN  /\ call' = [op |-> "BarStats", x |-> a[1], y |-> a[2],
                        data |-> a[3], paired |-> paired,
                        approach |-> approach, thres_fisher |-> thres_fisher,
                        min_expected |-> min_expected,
                        fisher_rxc |-> fisher_rxc]
            /\ self' = st.self
            /\ raised' = st.raised
            /\ warned' = st.warned
            /\ events' = st.events
            /\ ret' = st.ret
            /\ history' = {}

Next ==
    \/ InferTypesCall
    \/ InputDataHandlerCall
    \/ BetweenStatsCall
    \/ BarStatsCall

Spec == Init /\ [][Next]_vars

----------------------------------------------------------------------------
(* Properties *)

IsInferTypes == call.op = "_infer_types"

IsHandler == call.op = "_InputDataHandler"

IsBetween == call.op = "BetweenStats"

IsBar == call.op = "BarStats"

Exc(type, msg) == [type |-> type, msg |-> msg]

\* A BetweenStats call that got as far as _fit: n_cat is assigned.
BetweenFitted == IsBetween /\ HasAttr(self, "n_cat")

\* The call returned, it ran the test fn alone and the object is named name.
Selected(fn, name) ==
    /\ raised = NoExc
    /\ TestsRun(events) = <<fn>>
    /\ HasAttr(self, "name") /\ self["name"] = name

\* C1: _infer_types returns (categorical, numerical) when exactly one of
\* the two columns is categorical (Categorical, Enum, String) and the other
\* numeric, raises KeyError in every other case, and a returned pair is a
\* permutation of (x, y).
C1_InferTypes ==
    IsInferTypes =>
        LET DtypeIn(c, dtypes) ==
                c \in DOMAIN call.schema /\ call.schema[c] \in dtypes
            x_cat == DtypeIn(call.x, {"Categorical", "Enum", "String"})
            y_cat == DtypeIn(call.y, {"Categorical", "Enum", "String"})
            x_num == DtypeIn(call.x, NumericDtypes)
            y_num == DtypeIn(call.y, NumericDtypes)
        IN  /\ (x_cat /\ y_num) => (raised = NoExc /\ ret = <<call.x, call.y>>)
            /\ (y_cat /\ x_num) => (raised = NoExc /\ ret = <<call.y, call.x>>)
            /\ ~((x_cat /\ y_num) \/ (y_cat /\ x_num)) =>
                   (raised.type = "KeyError" /\ ret = NoRet)
            /\ raised = NoExc =>
                   ret \in {<<call.x, call.y>>, <<call.y, call.x>>}

\* y is the categorical column and x the numerical one: the pair is swapped.
C1_Witness ==
    /\ IsInferTypes
    /\ call.x \in DOMAIN call.schema /\ call.y \in DOMAIN call.schema
    /\ call.schema[call.y] = "Enum" /\ call.schema[call.x] = "Float64"
    /\ ret = <<call.y, call.x>>

C3_TooFewCategories ==
    (BetweenFitted /\ self["n_cat"] < 2) =>
        /\ raised = Exc("ValueError", MsgTwoCategories)
        /\ TestsRun(events) = <<>>

\* One category, paired, robust.
C3_Witness ==
    /\ IsBetween /\ call.approach = "robust" /\ call.paired
    /\ call.x.kind = "series" /\ call.x.col = [dtype |-> "String", n_unique |-> 1]
    /\ call.y.kind = "series" /\ call.y.col.dtype = "Float64"
    /\ raised = Exc("ValueError", MsgTwoCategories)

\* C4: two categories, unpaired, parametric: Student when equal_var is
\* absent or true, Welch when it is false.
C4_EqualVar ==
    (BetweenFitted /\ self["n_cat"] = 2 /\ ~call.paired
        /\ call.approach = "parametric") =>
        /\ raised = NoExc
        /\ HasAttr(self, "name")
        /\ IF "equal_var" \in DOMAIN call.kwargs /\ ~call.kwargs["equal_var"]
           THEN self["name"] = "Welch"
           ELSE self["name"] = "Student"

\* equal_var=True is given and the name is Student.
C4_Witness ==
    /\ BetweenFitted /\ self["n_cat"] = 2 /\ ~call.paired
    /\ call.approach = "parametric"
    /\ "equal_var" \in DOMAIN call.kwargs /\ call.kwargs["equal_var"]
    /\ raised = NoExc /\ self["name"] = "Student"

\* C5: three or more categories: paired raises NotImplementedError (repeated
\* measures) whatever the approach; unpaired with robust or bayes raises
\* NotImplementedError (only parametric and nonparametric).
C5_ManyNotImplemented ==
    (BetweenFitted /\ self["n_cat"] >= 3) =>
        /\ call.paired => raised = Exc("NotImplementedError", MsgRepeated)
        /\ (~call.paired /\ call.approach \in {"robust", "bayes"}) =>
               raised = Exc("NotImplementedError", MsgOnlyTwo)

\* Paired and bayes together: the paired error is the one raised.
C5_Witness ==
    /\ BetweenFitted /\ self["n_cat"] >= 3
    /\ call.paired /\ call.approach = "bayes"
    /\ raised = Exc("NotImplementedError", MsgRepeated)

\* C6: two categories: paired with robust or bayes raises
\* NotImplementedError (paired samples), unpaired with bayes raises
\* NotImplementedError (independent samples), and no other combination
\* raises NotImplementedError.
C6_TwoNotImplemented ==
    (BetweenFitted /\ self["n_cat"] = 2) =>
        IF call.paired /\ call.approach \in {"robust", "bayes"}
        THEN raised = Exc("NotImplementedError", MsgPairedOnly)
        ELSE IF ~call.paired /\ call.approach = "bayes"
             THEN raised = Exc("NotImplementedError", MsgIndependentOnly)
             ELSE raised.type # "NotImplementedError"

\* Unpaired and robust: the call returns.
C6_Witness ==
    /\ BetweenFitted /\ self["n_cat"] = 2
    /\ ~call.paired /\ call.approach = "robust"
    /\ raised = NoExc

\* C7: three or more categories, unpaired, parametric, equal_var=False:
\* NotImplementedError (Welch's ANOVA) before any test has run.
C7_WelchAnova ==
    (BetweenFitted /\ self["n_cat"] >= 3 /\ ~call.paired
        /\ call.approach = "parametric"
        /\ "equal_var" \in DOMAIN call.kwargs /\ ~call.kwargs["equal_var"]) =>
        /\ raised = Exc("NotImplementedError", MsgWelchAnova)
        /\ TestsRun(events) = <<>>

\* equal_var=False with a scipy whose f_oneway would have taken it.
C7_Witness ==
    /\ BetweenFitted /\ self["n_cat"] >= 3 /\ ~call.paired
    /\ call.approach = "parametric" /\ call.f_oneway_equal_var
    /\ call.kwargs = ("equal_var" :> FALSE)
    /\ raised = Exc("NotImplementedError", MsgWelchAnova)

BothStr == call.x.kind = "str" /\ call.y.kind = "str"

BothSeries == call.x.kind = "series" /\ call.y.kind = "series"

BothArrays ==
    /\ call.x.kind \in {"list", "tuple", "ndarray"}
    /\ call.y.kind \in {"list", "tuple", "ndarray"}

HandlerSource(source) ==
    raised = NoExc /\ HasAttr(self, "source") /\ self["source"] = source

\* C9 as stated: the types of x and y alone decide among the four outcomes
\* dataframe, series, array and TypeError.
C9_DispatchAsStated ==
    IsHandler =>
        /\ BothStr => /\ HandlerSource("dataframe")
                      /\ self["x_name"] = call.x.s /\ self["y_name"] = call.y.s
        /\ BothSeries => HandlerSource("series")
        /\ BothArrays => /\ HandlerSource("array")
                         /\ self["x_name"] = "x" /\ self["y_name"] = "y"
        /\ ~(BothStr \/ BothSeries \/ BothArrays) => raised.type = "TypeError"

\* C9, amended: two strings give source dataframe with the names x and y,
\* or else a ValueError; two Series give series; two array-likes (list,
\* tuple, numpy array, mixed or not) give array with the names x and y;
\* TypeError is raised exactly for the other combinations.
C9_Dispatch ==
    IsHandler =>
        /\ BothStr => \/ /\ HandlerSource("dataframe")
                         /\ self["x_name"] = call.x.s
                         /\ self["y_name"] = call.y.s
                      \/ raised.type = "ValueError"
        /\ BothSeries => HandlerSource("series")
        /\ BothArrays => /\ HandlerSource("array")
                         /\ self["x_name"] = "x" /\ self["y_name"] = "y"
        /\ (~(BothStr \/ BothSeries \/ BothArrays)) <=> (raised.type = "TypeError")

\* A tuple with a numpy array is the array case.
C9_Witness ==
    /\ IsHandler
    /\ call.x.kind = "tuple" /\ call.y.kind = "ndarray"
    /\ HandlerSource("array")

\* C10: with two strings, data=None raises ValueError (data must be passed),
\* and otherwise a name that is no column of data raises ValueError (not
\* found); the first check wins, and neither leaves an attribute assigned.
C10_StringErrors ==
    (IsHandler /\ BothStr) =>
        IF call.data.kind = "None"
        THEN raised = Exc("ValueError", MsgDataMissing) /\ self = Empty
        ELSE IF call.x.s \notin DOMAIN call.data.columns
                \/ call.y.s \notin DOMAIN call.data.columns
             THEN raised = Exc("ValueError", MsgNotFound) /\ self = Empty
             ELSE raised = NoExc

\* x is a column of data and y is not.
C10_Witness ==
    /\ IsHandler /\ BothStr /\ call.data.kind = "dataframe"
    /\ call.x.s \in DOMAIN call.data.columns
    /\ call.y.s \notin DOMAIN call.data.columns
    /\ raised = Exc("ValueError", MsgNotFound)

----------------------------------------------------------------------------
(* _beeswarm: x-offsets of the points of one category *)

\* Largest number of points of a swarm.
MaxPoints == 7

\* 1 / 1e-5, the term added to the divisor of dx.
EpsInv == 100000

\* The y values of the points, and the widths (jitter_amount) of a call.
YValues == 0..2

Widths == 0..2

Points == UNION {[1..n -> YValues] : n \in 1..MaxPoints}

Values(y) == {y[p] : p \in 1..Len(y)}

SeqMin(y) == CHOOSE v \in Values(y) : \A w \in Values(y) : v <= w

SeqMax(y) == CHOOSE v \in Values(y) : \A w \in Values(y) : v >= w

\* int(np.ceil(len(y) / 6))
nbins(y) == (Len(y) + 5) \div 6

\* bin_edges of np.histogram(y, bins=nbins): nbins equal bins over the range
\* (min, max), widened by 0.5 on each side when min = max.  The edges are
\* lo + i * (hi - lo) / nbins for i in 0..nbins; the record holds twice lo and
\* twice hi - lo, to stay in integers.
bin_edges(y) ==
    LET lo == SeqMin(y)
        hi == SeqMax(y)
    IN  [nbins |-> nbins(y),
         lo2   |-> IF lo = hi THEN 2 * lo - 1 ELSE 2 * lo,
         span2 |-> IF lo = hi THEN 2 ELSE 2 * (hi - lo)]

\* v > bin_edges[i] and v >= bin_edges[i].
AboveEdge(e, v, i) == (2 * v - e.lo2) * e.nbins > i * e.span2

AtLeastEdge(e, v, i) == (2 * v - e.lo2) * e.nbins >= i * e.span2

\* The i-th bin of np.histogram (i in 1..nbins) is half-open, [lower, upper),
\* except the last one, which is closed.
InHistBin(e, v, i) ==
    /\ AtLeastEdge(e, v, i - 1)
    /\ IF i = e.nbins THEN ~AboveEdge(e, v, i) ELSE ~AtLeastEdge(e, v, i)

counts(y, e) ==
    [i \in 1..e.nbins |-> Cardinality({p \in 1..Len(y) : InHistBin(e, y[p], i)})]

max_bin_count(y, e) ==
    LET c == counts(y, e)
    IN  CHOOSE m \in {c[i] : i \in 1..e.nbins} : \A i \in 1..e.nbins : m >= c[i]

\* The points of the i-th bin of the layout loop: (y > ymin) & (y <= ymax).
in_bin(y, e, i) ==
    {p \in 1..Len(y) : AboveEdge(e, y[p], i - 1) /\ ~AboveEdge(e, y[p], i)}

\* The position of point p in sorted_indices.  np.argsort does not fix the
\* order of equal values: they come in index order (stable) or in the
\* reverse order.
Rank(y, bin, p, stable) ==
    Cardinality({q \in bin : \/ y[q] < y[p]
                             \/ y[q] = y[p] /\ IF stable THEN q < p ELSE q > p})

\* dx = width / (max_bin_count // 2 + 1e-5) and the offsets are odd multiples
\* of dx / 2: they are kept as numerators over the common denominator
\* 2 * (max_bin_count // 2 + 1e-5) * EpsInv.
OffsetDen(y, e) == 2 * ((max_bin_count(y, e) \div 2) * EpsInv + 1)

\* Mutation of OffsetNum: both halves of the bin go to the same side.
OffsetNumOneSide(rank, width) ==
    IF rank % 2 = 0
    THEN (rank + 1) * width * EpsInv
    ELSE rank * width * EpsInv

\* left = sorted_indices[::2] gets dx * (0.5 + k) and right =
\* sorted_indices[1::2] gets -dx * (0.5 + k), k the position in the half.
OffsetNum(rank, width) ==
    IF rank % 2 = 0
    THEN (rank + 1) * width * EpsInv
    ELSE -(rank * width * EpsInv)

\* _beeswarm(y, width): x_offsets starts as zeros and every bin of the loop
\* overwrites the offsets of its points.
Beeswarm(y, width, stable) ==
    LET e == bin_edges(y)
        bins == [i \in 1..e.nbins |-> in_bin(y, e, i)]
        x_offsets ==
            [p \in 1..Len(y) |->
                IF \E i \in 1..e.nbins : p \in bins[i]
                THEN LET i == CHOOSE i \in 1..e.nbins : p \in bins[i]
                     IN  OffsetNum(Rank(y, bins[i], p, stable), width)
                ELSE 0]
    IN  [Frame0 EXCEPT !.ret = [x_offsets |-> x_offsets, den |-> OffsetDen(y, e)]]

BeeswarmCall ==
    /\ Idle
    /\ \E y \in Points, width \in Widths, stable \in BOOLEAN :
        LET st == Beeswarm(y, width, stable)
        IN  /\ call' = [op |-> "_beeswarm", y |-> y, width |-> width,
                        stable |-> stable]
            /\ self' = st.self
            /\ raised' = st.raised
            /\ warned' = st.warned
            /\ events' = st.events
            /\ ret' = st.ret
            /\ history' = {}

NextBeeswarm == BeeswarmCall

SpecBeeswarm == Init /\ [][NextBeeswarm]_vars

IsBeeswarm == call.op = "_beeswarm"

Abs(n) == IF n < 0 THEN -n ELSE n

\* C11: _beeswarm returns one offset per point, every offset is at most
\* width in absolute value (width is the maximum horizontal spread), and
\* width = 0 gives offsets that are all 0.
C11_SpreadWithinWidth ==
    IsBeeswarm =>
        /\ Len(ret.x_offsets) = Len(call.y)
        /\ \A p \in 1..Len(call.y) :
               Abs(ret.x_offsets[p]) <= call.width * ret.den
        /\ call.width = 0 => \A p \in 1..Len(call.y) : ret.x_offsets[p] = 0

\* A single point: max_bin_count // 2 is 0, dx is width / 1e-5 and the offset
\* dx / 2 is far beyond width.
C11_Witness ==
    /\ IsBeeswarm /\ call.y = <<1>> /\ call.width = 1
    /\ ret.x_offsets[1] > call.width * ret.den

\* The offsets of the points of bin i, and the rank an offset stands for:
\* the positive offsets (2k + 1) * dx / 2 are the ranks 2k, the negative
\* ones the ranks 2k + 1.
RankOfOffset(num, width) ==
    IF num > 0
    THEN (num \div (width * EpsInv)) - 1
    ELSE (-num) \div (width * EpsInv)

----------------------------------------------------------------------------
(* BarStats: the choice between the chi-square and Fisher's exact tests *)

\* A BarStats call that reached the choice of the test.
BarTested == IsBar /\ HasAttr(self, "test_name")

\* C13: thres_fisher = 0 forces the chi-square test whatever the expected
\* frequencies are, and the fall-back to Fisher's exact test for violated
\* assumptions (a table that is not 2x2) fires only when some expected
\* frequency is below thres_fisher.
C13_ThresFisher ==
    BarTested =>
        /\ call.thres_fisher = 0 => self["test_name"] = "Chi-square"
        /\ (self["test_name"] = "Fisher's exact"
                /\ self["contingency_table"] # <<2, 2>>) =>
               call.min_expected < call.thres_fisher

\* thres_fisher = 0 and a 3x2 table with an expected frequency of 1:
\* Fisher's exact test is selected.
C13_Witness ==
    /\ BarTested /\ call.thres_fisher = 0
    /\ self["contingency_table"] = <<3, 2>> /\ call.min_expected = 1
    /\ self["test_name"] = "Fisher's exact"

----------------------------------------------------------------------------
(* BarStats on the rows of the data: the contingency table *)

\* Largest number of rows of the data.
MaxRows == 4

XLevels == {"a", "b", "c"}

YLevels == {"u", "v"}

\* The rows of the data, as (x, y) pairs: x and y have the same length.
RowSeqs == UNION {[1..n -> XLevels \X YLevels] : n \in 1..MaxRows}

Column(rows, k) == [i \in 1..Len(rows) |-> rows[i][k]]

\* A column given as a list of strings.
ListOf(values) ==
    Array("list", [dtype |-> "String",
                   n_unique |-> Cardinality({values[i] : i \in 1..Len(values)}),
                   values |-> values])

\* The cell of an (x, y) combination that no row holds, before fill_null.
NullCell == -1

\* Mutation of group_by_len: every group counts for one row.
group_by_len_ones(xs, ys) ==
    [g \in {<<xs[i], ys[i]>> : i \in 1..Len(xs)} |-> 1]

\* df.group_by(x_name, y_name).agg(nw.len()): the number of rows of every
\* (x, y) combination that occurs.
group_by_len(xs, ys) ==
    [g \in {<<xs[i], ys[i]>> : i \in 1..Len(xs)} |->
        Cardinality({i \in 1..Len(xs) : <<xs[i], ys[i]>> = g})]

\* .pivot(values="len", index=x_name, on=y_name): one row per x value, one
\* column per y value, null where the combination is no group.
pivot(groups) ==
    [xv \in {g[1] : g \in DOMAIN groups} |->
        [yv \in {g[2] : g \in DOMAIN groups} |->
            IF <<xv, yv>> \in DOMAIN groups THEN groups[<<xv, yv>>] ELSE NullCell]]

\* .with_columns(nw.selectors.numeric().fill_null(0))
fill_null(table) ==
    [xv \in DOMAIN table |->
        [yv \in DOMAIN table[xv] |->
            IF table[xv][yv] = NullCell THEN 0 ELSE table[xv][yv]]]

\* The shape of .select(nw.selectors.numeric()).to_numpy(): the rows and the
\* count columns of the pivot.
shape(table) ==
    <<Cardinality(DOMAIN table),
      IF DOMAIN table = {}
      THEN 0
      ELSE Cardinality(DOMAIN table[CHOOSE xv \in DOMAIN table : TRUE])>>

RECURSIVE SumOver(_, _)
\* The sum of f over the set S.
SumOver(f, S) ==
    IF S = {}
    THEN 0
    ELSE LET s == CHOOSE s \in S : TRUE
         IN  f[s] + SumOver(f, S \ {s})

RowSums(table) == [xv \in DOMAIN table |-> SumOver(table[xv], DOMAIN table[xv])]

ColSums(table) ==
    LET xv0 == CHOOSE xv \in DOMAIN table : TRUE
    IN  [yv \in DOMAIN table[xv0] |->
            SumOver([xv \in DOMAIN table |-> table[xv][yv]], DOMAIN table)]

\* contingency_table.sum()
SumCells(table) == SumOver(RowSums(table), DOMAIN table)

\* The smallest expected frequency of st.chi2_contingency, row sum * column
\* sum / total, rounded down.
MinExpectedOf(table) ==
    LET r == RowSums(table)
        c == ColSums(table)
        products == {r[xv] * c[yv] : xv \in DOMAIN r, yv \in DOMAIN c}
        least == CHOOSE m \in products : \A q \in products : m <= q
    IN  least \div SumCells(table)

\* BarStats.__init__(x, y, data, approach, paired) with the contingency
\* table computed from the rows.
BarStatsRows(x, y, data, approach, paired, fisher_rxc) ==
    IF approach \notin bar_valid_approachs
    THEN Raise(Frame0, "ValueError", MsgApproach)
    ELSE LET h == InputDataHandler(Frame0, x, y, data)
             s1 == Event(Frame0, "_InputDataHandler")
         IN  IF ~Ok(h)
             THEN [s1 EXCEPT !.raised = h.raised]
             ELSE LET info == h.self
                      df == info["dataframe"]
                      xs == df.columns[info["x_name"]].values
                      ys == df.columns[info["y_name"]].values
                      contingency_df == fill_null(pivot(group_by_len(xs, ys)))
                  IN  BarFit(
                          SetAttr(SetAttr(SetAttr(SetAttr(SetAttr(SetAttr(
                          SetAttr(s1,
                              "_data_info", info), "is_paired", paired),
                              "n_obs", Len(xs)),
                              "n_cat", df.columns[info["x_name"]].n_unique),
                              "n_levels", df.columns[info["y_name"]].n_unique),
                              "contingency_df", contingency_df),
                              "contingency_table", shape(contingency_df)),
                          approach, MinExpectedOf(contingency_df), fisher_rxc)

BarStatsRowsCall ==
    /\ Idle
    /\ \E rows \in RowSeqs, paired \in BOOLEAN,
       approach \in bar_valid_approachs \cup {"fisher"}, fisher_rxc \in BOOLEAN :
        LET x == ListOf(Column(rows, 1))
            y == ListOf(Column(rows, 2))
            st == BarStatsRows(x, y, None, approach, paired, fisher_rxc)
        IN  /\ call' = [op |-> "BarStatsRows", x |-> x, y |-> y, data |-> None,
                        paired |-> paired, approach |-> approach,
                        fisher_rxc |-> fisher_rxc]
            /\ self' = st.self
            /\ raised' = st.raised
            /\ warned' = st.warned
            /\ events' = st.events
            /\ ret' = st.ret
            /\ history' = {}

NextBarRows == BarStatsRowsCall

SpecBarRows == Init /\ [][NextBarRows]_vars

\* A BarStats call on rows that built its contingency table.
BarTabled == call.op = "BarStatsRows" /\ HasAttr(self, "contingency_df")

\* C14: the cells of the contingency table sum to n_obs, its shape is
\* (n_cat, n_levels), the numbers of distinct x and y values, and every cell
\* is >= 0, the combinations that never occur being 0.
C14_ContingencyTable ==
    BarTabled =>
        LET xs == call.x.col.values
            ys == call.y.col.values
            table == self["contingency_df"]
            rows(xv, yv) == {i \in 1..Len(xs) : xs[i] = xv /\ ys[i] = yv}
        IN  /\ self["n_obs"] = Len(xs)
            /\ SumCells(table) = self["n_obs"]
            /\ self["contingency_table"] = <<self["n_cat"], self["n_levels"]>>
            /\ self["n_cat"] = Cardinality({xs[i] : i \in 1..Len(xs)})
            /\ self["n_levels"] = Cardinality({ys[i] : i \in 1..Len(ys)})
            /\ \A xv \in DOMAIN table : \A yv \in DOMAIN table[xv] :
                   /\ table[xv][yv] >= 0
                   /\ table[xv][yv] = Cardinality(rows(xv, yv))

\* Three x values and two y values over four rows: two of the six cells
\* are filled with 0.
C14_Witness ==
    /\ BarTabled
    /\ self["contingency_table"] = <<3, 2>> /\ self["n_obs"] = 4
    /\ \E xv \in XLevels, yv \in YLevels : self["contingency_df"][xv][yv] = 0

----------------------------------------------------------------------------
(* BarStats: approach = "fisher" *)

\* The message test_error_fisher_not_2x2 expects.
MsgFisher2x2 == "Fisher's exact test can only be used with 2x2 contingency tables"

\* A BarStats call on two Series whose contingency table is not 2x2.
BarNot2x2 ==
    /\ IsBar
    /\ call.x.kind = "series" /\ call.y.kind = "series"
    /\ <<call.x.col.n_unique, call.y.col.n_unique>> # <<2, 2>>

\* C15: BarStats with approach = "fisher" on a contingency table that is not
\* 2x2 raises ValueError with the message that Fisher's exact test can only
\* be used with 2x2 contingency tables.
C15_FisherNot2x2 ==
    (BarNot2x2 /\ call.approach = "fisher") =>
        raised = Exc("ValueError", MsgFisher2x2)

\* approach = "fisher" on a 3x2 table: the ValueError raised is the one of
\* the approach check.
C15_Witness ==
    /\ BarNot2x2 /\ call.approach = "fisher"
    /\ call.x.col.n_unique = 3 /\ call.y.col.n_unique = 2
    /\ raised = Exc("ValueError", MsgApproach)
    /\ self = Empty

----------------------------------------------------------------------------
(* fleur/scatterstats.py: ScatterStats *)

scatter_alternatives == {"two-sided", "less", "greater"}

correlation_measures == {"pearson", "kendall", "spearman"}

MsgAlternative ==
    "alternative argument must be one of: 'two-sided', 'less', 'greater'."

MsgIgnored == "bins/hist_kws arguments are ignored when marginal=False."

MsgCorrelation ==
    "correlation_measure argument must be one of: 'pearson', 'kendall', 'spearman'."

MsgMustPlot == "Must call 'plot()' before calling 'summary()'."

\* ci / 100 with a ci that is no number.
MsgCiType == "unsupported operand type(s) for /"

\* ScatterStats.__init__(x, y, data)
ScatterStats(x, y, data) ==
    LET h == InputDataHandler(Frame0, x, y, data)
        s1 == Event(Frame0, "InputDataHandler")
    IN  IF ~Ok(h)
        THEN [s1 EXCEPT !.raised = h.raised]
        ELSE SetAttr(SetAttr(s1, "_data_info", h.self), "_is_fitted", FALSE)

\* The frame of a method called on the object obj.
Method(obj) == [Frame0 EXCEPT !.self = obj]

\* The figure of plot(): plt.subplot_mosaic with marginal, the current Axes
\* and Figure without (ax is None).
ScatterFigure(st, marginal) ==
    IF marginal
    THEN SetAttr(SetAttr(Event(st, "plt.subplot_mosaic"),
             "fig", "mosaic"), "ax", "A")
    ELSE SetAttr(SetAttr(Event(Event(st, "plt.gca"), "plt.gcf"),
             "fig", "gcf"), "ax", "gca")

\* st.pearsonr, st.kendalltau or st.spearmanr and the symbol of the measure.
ScatterCorrelation(st, correlation_measure) ==
    CASE correlation_measure = "pearson" ->
             SetAttr(Event(st, "pearsonr"), "_symbol_correl", "rho")
      [] correlation_measure = "kendall" ->
             SetAttr(Event(st, "kendalltau"), "_symbol_correl", "tau")
      [] correlation_measure = "spearman" ->
             SetAttr(Event(st, "spearmanr"), "_symbol_correl", "rho")
      [] OTHER -> st

\* Lines 128-253 of plot(): the regression, the statistics, the drawing.
ScatterFit(st, marginal, ci, correlation_measure) ==
    LET s1 == SetAttr(Event(st, "linregress"), "n_obs", "int")
    IN  IF ci.kind # "number"
        THEN Raise(s1, "TypeError", MsgCiType)
        ELSE LET s2 == SetAttr(SetAttr(s1, "alpha", "float"), "dof", "int")
                 s3 == ScatterCorrelation(s2, correlation_measure)
                 s4 == SetAttr(SetAttr(SetAttr(SetAttr(SetAttr(SetAttr(SetAttr(s3,
                           "pvalue", "float"), "intercept", "float"),
                           "slope", "float"), "stderr_slope", "float"),
                           "_t_critical", "float"), "ci_lower", "float"),
                           "ci_upper", "float")
                 s5 == SetAttr(Event(s4, "_count_n_decimals"), "_expression",
                           <<"$", "t_{Student}", "CI", "p =",
                             s4.self["_symbol_correl"], correlation_measure,
                             "n_{obs}", "$">>)
                 s6 == Event(Event(Event(Event(s5, "ax.fill_between"),
                           "ax.scatter"), "ax.plot"), "themify")
                 s7 == IF marginal
                       THEN Event(Event(s6, "hist"), "hist")
                       ELSE s6
                 s8 == Event(Event(SetAttr(s7, "model_expr", <<"$", "y_i", "$">>),
                           "fig.text"), "fig.text")
             IN  [SetAttr(s8, "_is_fitted", TRUE) EXCEPT !.ret = "self"]

\* Mutation of ScatterPlot: the object is marked as fitted on entry.
ScatterPlotFittedFirst(obj, marginal, ci, alternative, correlation_measure, bins, hist_kws) ==
    LET st == SetAttr(Method(obj), "_is_fitted", TRUE)
    IN  IF alternative \notin scatter_alternatives
        THEN Raise(st, "ValueError", MsgAlternative)
        ELSE LET s1 == IF ~marginal /\ (bins # None \/ hist_kws # None)
                       THEN Warn(st, MsgIgnored)
                       ELSE st
             IN  IF correlation_measure \notin correlation_measures
                 THEN Raise(s1, "ValueError", MsgCorrelation)
                 ELSE ScatterFit(ScatterFigure(s1, marginal), marginal, ci,
                                 correlation_measure)

\* Mutation of ScatterPlot: the figure is created before the options are
\* validated.
ScatterPlotFigureFirst(obj, marginal, ci, alternative, correlation_measure, bins, hist_kws) ==
    LET st == ScatterFigure(Method(obj), marginal)
    IN  IF alternative \notin scatter_alternatives
        THEN Raise(st, "ValueError", MsgAlternative)
        ELSE LET s1 == IF ~marginal /\ (bins # None \/ hist_kws # None)
                       THEN Warn(st, MsgIgnored)
                       ELSE st
             IN  IF correlation_measure \notin correlation_measures
                 THEN Raise(s1, "ValueError", MsgCorrelation)
                 ELSE ScatterFit(s1, marginal, ci, correlation_measure)

\* ScatterStats.plot(marginal, ci, alternative, correlation_measure, bins,
\* hist_kws) on the object obj.
ScatterPlot(obj, marginal, ci, alternative, correlation_measure, bins, hist_kws) ==
    LET st == Method(obj)
    IN  IF alternative \notin scatter_alternatives
        THEN Raise(st, "ValueError", MsgAlternative)
        ELSE LET s1 == IF ~marginal /\ (bins # None \/ hist_kws # None)
                       THEN Warn(st, MsgIgnored)
                       ELSE st
             IN  IF correlation_measure \notin correlation_measures
                 THEN Raise(s1, "ValueError", MsgCorrelation)
                 ELSE ScatterFit(ScatterFigure(s1, marginal), marginal, ci,
                                 correlation_measure)

\* ScatterStats.summary() on the object obj.
ScatterSummary(obj) ==
    LET st == Method(obj)
    IN  IF ~st.self["_is_fitted"]
        THEN Raise(st, "RuntimeError", MsgMustPlot)
        ELSE Event(Event(Event(st, "print"), "print"), "print")

\* (x, y, data) of a ScatterStats: two arrays, or two column names without
\* a dataframe.
ScatterCol == [dtype |-> "Float64", n_unique |-> MaxCat]

ScatterArgs ==
    {<<Array("list", ScatterCol), Array("ndarray", ScatterCol), None>>,
     <<Str("a"), Str("b"), None>>}

Given(v) == [kind |-> "given", v |-> v]

Number(n) == [kind |-> "number", n |-> n]

\* ci: a number, or a string by mistake.
CiValues == {Number(95), Str("95")}

\* (bins, hist_kws): neither given, or one of them.
BinsHistKws == {<<None, None>>, <<Number(20), None>>, <<None, Given("color")>>}

\* A ScatterStats object exists: its constructor returned.
IsScatter == HasAttr(self, "_is_fitted")

Outcome(method, st) ==
    IF st.raised = NoExc THEN method \o " returned" ELSE method \o " raised"

ScatterStatsCall ==
    /\ Idle
    /\ \E a \in ScatterArgs :
        LET st == ScatterStats(a[1], a[2], a[3])
        IN  /\ call' = [op |-> "ScatterStats", x |-> a[1], y |-> a[2],
                        data |-> a[3]]
            /\ self' = st.self
            /\ raised' = st.raised
            /\ warned' = st.warned
            /\ events' = st.events
            /\ ret' = st.ret
            /\ history' = {}

ScatterPlotCall ==
    /\ IsScatter
    /\ \E marginal \in BOOLEAN, ci \in CiValues,
       alternative \in scatter_alternatives \cup {"invalid"},
       correlation_measure \in correlation_measures \cup {"invalid"},
       bh \in BinsHistKws :
        LET bins == bh[1]
            hist_kws == bh[2]
            st == ScatterPlot(self, marginal, ci, alternative, correlation_measure,
                              bins, hist_kws)
        IN  /\ call' = [op |-> "ScatterStats.plot", marginal |-> marginal,
                        ci |-> ci, alternative |-> alternative,
                        correlation_measure |-> correlation_measure,
                        bins |-> bins, hist_kws |-> hist_kws]
            /\ self' = st.self
            /\ raised' = st.raised
            /\ warned' = st.warned
            /\ events' = st.events
            /\ ret' = st.ret
            /\ history' = history \cup {Outcome("plot", st)}

ScatterSummaryCall ==
    /\ IsScatter
    /\ LET st == ScatterSummary(self)
       IN  /\ call' = [op |-> "ScatterStats.summary"]
           /\ self' = st.self
           /\ raised' = st.raised
           /\ warned' = st.warned
           /\ events' = st.events
           /\ ret' = st.ret
           /\ history' = history \cup {Outcome("summary", st)}

\* inferplot/scatterstats.py: scatterstats(x, y, data, marginal, ci,
\* alternative, bins, hist_kws), the function that ScatterStats.plot took
\* over.  It returns the Figure with marginal and the Axes without.
InferplotScatterstats(marginal, ci, alternative, bins, hist_kws) ==
    IF alternative \notin scatter_alternatives
    THEN Raise(Frame0, "ValueError", MsgAlternative)
    ELSE LET s1 == IF ~marginal /\ (bins # None \/ hist_kws # None)
                   THEN Warn(Frame0, MsgIgnored)
                   ELSE Frame0
             s2 == IF marginal
                   THEN Event(s1, "plt.subplot_mosaic")
                   ELSE Event(Event(s1, "plt.gca"), "plt.gcf")
             s3 == Event(Event(s2, "nw.from_native"), "linregress")
         IN  IF ci.kind # "number"
             THEN Raise(s3, "TypeError", MsgCiType)
             ELSE LET s4 == Event(Event(s3, "_count_n_decimals"), "sns.regplot")
                      s5 == IF marginal
                            THEN Event(Event(s4, "hist"), "hist")
                            ELSE s4
                      s6 == Event(Event(s5, "fig.text"), "fig.text")
                  IN  [s6 EXCEPT !.ret = IF marginal THEN "fig" ELSE "ax"]

InferplotScatterstatsCall ==
    /\ Idle
    /\ \E marginal \in BOOLEAN, ci \in CiValues,
       alternative \in scatter_alternatives \cup {"invalid"},
       bh \in BinsHistKws :
        LET st == InferplotScatterstats(marginal, ci, alternative, bh[1], bh[2])
        IN  /\ call' = [op |-> "scatterstats", marginal |-> marginal,
                        ci |-> ci, alternative |-> alternative,
                        bins |-> bh[1], hist_kws |-> bh[2]]
            /\ self' = st.self
            /\ raised' = st.raised
            /\ warned' = st.warned
            /\ events' = st.events
            /\ ret' = st.ret
            /\ history' = {}

NextScatter ==
    \/ ScatterStatsCall
    \/ ScatterPlotCall
    \/ ScatterSummaryCall
    \/ InferplotScatterstatsCall

SpecScatter == Init /\ [][NextScatter]_vars

IsPlot == call.op = "ScatterStats.plot"

IsSummary == call.op = "ScatterStats.summary"

\* C16: summary() raises RuntimeError exactly when no plot() has returned
\* on the instance: a new instance is unfitted, a plot() that raises leaves
\* an unfitted instance unfitted, and once a plot() has returned the
\* instance stays fitted through every later call, failing plot() calls
\* included.
C16_SummaryNeedsPlot ==
    /\ HasAttr(self, "_is_fitted") =>
           (self["_is_fitted"] <=> "plot returned" \in history)
    /\ IsSummary =>
           IF "plot returned" \in history
           THEN raised = NoExc
           ELSE raised = Exc("RuntimeError", MsgMustPlot)
    /\ (call.op = "ScatterStats" /\ raised = NoExc) =>
           /\ ~self["_is_fitted"]
           /\ history = {}

\* summary() returns on an instance on which one plot() returned and
\* another raised.
C16_Witness ==
    /\ IsSummary /\ raised = NoExc
    /\ {"plot returned", "plot raised", "summary raised"} \subseteq history

\* C17: the scatter plot entry point validates its options before it
\* creates a figure or sets an attribute: an alternative outside the three
\* valid ones raises ValueError, then the UserWarning for bins or hist_kws
\* with marginal=False is emitted, then a correlation_measure outside the
\* three valid ones raises ValueError.
C17_ValidateFirst ==
    [][LET alt_ok == call'.alternative \in scatter_alternatives
           ignored == ~call'.marginal
                          /\ (call'.bins # None \/ call'.hist_kws # None)
       IN  /\ call'.op \in {"ScatterStats.plot", "scatterstats"} =>
               /\ ~alt_ok =>
                      /\ raised' = Exc("ValueError", MsgAlternative)
                      /\ warned' = <<>>
                      /\ events' = <<>>
                      /\ self' = self
               /\ alt_ok =>
                      /\ warned' = IF ignored THEN <<MsgIgnored>> ELSE <<>>
                      /\ raised' # Exc("ValueError", MsgAlternative)
           /\ (call'.op = "ScatterStats.plot" /\ alt_ok) =>
               IF call'.correlation_measure \in correlation_measures
               THEN /\ raised'.type # "ValueError"
                    /\ events' # <<>>
                    /\ HasAttr(self', "fig") /\ HasAttr(self', "ax")
               ELSE /\ raised' = Exc("ValueError", MsgCorrelation)
                    /\ events' = <<>>
                    /\ self' = self
      ]_vars

\* plot(marginal=False, bins=20, correlation_measure="invalid") on a new
\* instance: the warning is emitted, ValueError is raised, no figure exists.
C17_Witness ==
    /\ IsPlot /\ call.alternative = "less" /\ call.correlation_measure = "invalid"
    /\ ~call.marginal /\ call.bins # None
    /\ warned = <<MsgIgnored>>
    /\ raised = Exc("ValueError", MsgCorrelation)
    /\ events = <<>>
    /\ ~HasAttr(self, "fig") /\ ~self["_is_fitted"]

----------------------------------------------------------------------------
(* The plot methods of BetweenStats and BarStats, and _get_first_n_colors *)

orientations == {"vertical", "horizontal"}

plot_types == {"stacked", "grouped"}

MsgOrientation == "orientation must be one of: 'vertical', 'horizontal'."

MsgPlotType == "plot_type must be one of: 'stacked', 'grouped'."

MsgColors == "colors argument must have at least"

\* The colour cycle of plt.rcParams: its colours are numbered from 1.
Cycle(length) == [i \in 1..length |-> i]

\* A list of k colours supplied by the caller, none of them of the cycle.
ColorList(k) == [i \in 1..k |-> 100 + i]

\* Mutation of _get_first_n_colors: a list that is too short is returned.
_get_first_n_colors_unchecked(colors, n_cat, cycle) ==
    IF colors = None
    THEN [Frame0 EXCEPT !.ret = SubSeq(cycle, 1, IF n_cat < Len(cycle)
                                                 THEN n_cat ELSE Len(cycle))]
    ELSE [Frame0 EXCEPT !.ret = colors.v]

\* _get_first_n_colors(colors, n_cat), cycle being
\* plt.rcParams["axes.prop_cycle"].by_key()["color"].
_get_first_n_colors(colors, n_cat, cycle) ==
    IF colors = None
    THEN [Frame0 EXCEPT !.ret = SubSeq(cycle, 1, IF n_cat < Len(cycle)
                                                 THEN n_cat ELSE Len(cycle))]
    ELSE IF Len(colors.v) < n_cat
         THEN Raise(Frame0, "ValueError", MsgColors)
         ELSE [Frame0 EXCEPT !.ret = colors.v]

RECURSIVE Repeat(_, _, _)
\* The events es, k times in a row: the body of a loop.
Repeat(st, k, es) ==
    IF k <= 0
    THEN st
    ELSE Repeat([st EXCEPT !.events = @ \o es], k - 1, es)

Min(a, b) == IF a < b THEN a ELSE b

\* Mutation of BetweenPlot: the Axes is stored before the orientation is
\* checked.
BetweenPlotAxFirst(obj, orientation, colors, cycle, scatter) ==
    LET st == SetAttr(Event(Method(obj), "plt.gca"), "ax", "gca")
    IN  IF orientation \notin orientations
        THEN Raise(st, "ValueError", MsgOrientation)
        ELSE LET c == _get_first_n_colors(colors, st.self["n_cat"], cycle)
                 s1 == Event(st, "_get_first_n_colors")
             IN  IF ~Ok(c)
                 THEN [s1 EXCEPT !.raised = c.raised]
                 ELSE [Event(s1, "plt.gcf") EXCEPT !.ret = "fig"]

\* BetweenStats.plot(orientation, colors, scatter) on the object obj, with
\* the other arguments at their defaults (violin, box, show_stats and
\* show_means are True, ax is None).
BetweenPlot(obj, orientation, colors, cycle, scatter) ==
    LET st == Method(obj)
    IN  IF orientation \notin orientations
        THEN Raise(st, "ValueError", MsgOrientation)
        ELSE LET n_cat == st.self["n_cat"]
                 c == _get_first_n_colors(colors, n_cat, cycle)
                 s1 == Event(st, "_get_first_n_colors")
             IN  IF ~Ok(c)
                 THEN [s1 EXCEPT !.raised = c.raised]
                 ELSE LET s2 == Event(Event(Event(s1, "plt.gca"),
                                    "ax.violinplot"), "ax.boxplot")
                          s3 == IF scatter
                                THEN Repeat(s2, Min(n_cat, Len(c.ret)),
                                            <<"_beeswarm", "ax.scatter">>)
                                ELSE s2
                          s4 == Repeat(s3, n_cat, <<"ax.scatter">>)
                          s5 == Event(Event(Event(s4, "ax.text"), "_themify"),
                                    IF orientation = "vertical"
                                    THEN "ax.set_xticks" ELSE "ax.set_yticks")
                          s6 == SetAttr(s5, "ax", "gca")
                          s7 == Repeat(s6, n_cat, <<"ax.text", "ax.plot">>)
                      IN  [Event(s7, "plt.gcf") EXCEPT !.ret = "fig"]

\* BarStats.plot(orientation, colors, plot_type) on the object obj, with the
\* other arguments at their defaults (show_stats, show_counts, ax is None).
BarPlot(obj, orientation, colors, cycle, plot_type) ==
    LET st == Method(obj)
    IN  IF orientation \notin orientations
        THEN Raise(st, "ValueError", MsgOrientation)
        ELSE IF plot_type \notin plot_types
        THEN Raise(st, "ValueError", MsgPlotType)
        ELSE LET s1 == Event(Event(st, "plt.gca"), "_themify")
                 c == _get_first_n_colors(colors, st.self["n_levels"], cycle)
                 s2 == Event(s1, "_get_first_n_colors")
             IN  IF ~Ok(c)
                 THEN [s2 EXCEPT !.raised = c.raised]
                 ELSE LET s3 == Event(s2, IF plot_type = "stacked"
                                          THEN "_plot_stacked" ELSE "_plot_grouped")
                          s4 == Event(Event(Event(s3, "ax.text"),
                                    IF orientation = "vertical"
                                    THEN "ax.set_xticks" ELSE "ax.set_yticks"),
                                    "ax.legend")
                      IN  [Event(SetAttr(s4, "ax", "gca"), "plt.gcf")
                              EXCEPT !.ret = "fig"]

\* The colors argument together with the colour cycle in force: None with
\* the cycle of set_rcParams or with a cycle of two colours, or a list of 0
\* to MaxCat + 1 colours.
CycleLengths == {2, 12}

ColorsArgs ==
    {<<None, Cycle(n)>> : n \in CycleLengths}
    \cup {<<Given(ColorList(k)), Cycle(12)>> : k \in 0..(MaxCat + 1)}

PlotCatCols == {c \in Cols({"String"}) : c.n_unique >= 1}

GetFirstNColorsCall ==
    /\ Idle
    /\ \E cc \in ColorsArgs, n_cat \in 0..MaxCat :
        LET st == _get_first_n_colors(cc[1], n_cat, cc[2])
        IN  /\ call' = [op |-> "_get_first_n_colors", colors |-> cc[1],
                        n_cat |-> n_cat, cycle |-> cc[2]]
            /\ self' = st.self
            /\ raised' = st.raised
            /\ warned' = st.warned
            /\ events' = st.events
            /\ ret' = st.ret
            /\ history' = {}

\* BetweenStats(x, y) on two Series, the object plot() is then called on.
BetweenStatsNewCall ==
    /\ Idle
    /\ \E cx \in PlotCatCols, approach \in {"parametric", "nonparametric"} :
        LET x == Series("a", cx)
            y == Series("b", [dtype |-> "Float64", n_unique |-> MaxCat])
            st == BetweenStats(x, y, None, FALSE, approach, Empty, FALSE)
        IN  /\ call' = [op |-> "BetweenStats", x |-> x, y |-> y, data |-> None,
                        paired |-> FALSE, approach |-> approach,
                        kwargs |-> Empty, f_oneway_equal_var |-> FALSE]
            /\ self' = st.self
            /\ raised' = st.raised
            /\ warned' = st.warned
            /\ events' = st.events
            /\ ret' = st.ret
            /\ history' = {}

\* BarStats(x, y) on two Series, the object plot() is then called on.
BarStatsNewCall ==
    /\ Idle
    /\ \E cx \in PlotCatCols, cy \in PlotCatCols, min_expected \in MinExpected :
        LET x == Series("a", cx)
            y == Series("b", cy)
            st == BarStats(x, y, None, "freq", FALSE, FisherThreshold,
                           min_expected, TRUE)
        IN  /\ call' = [op |-> "BarStats", x |-> x, y |-> y, data |-> None,
                        paired |-> FALSE, approach |-> "freq",
                        thres_fisher |-> FisherThreshold,
                        min_expected |-> min_expected, fisher_rxc |-> TRUE]
            /\ self' = st.self
            /\ raised' = st.raised
            /\ warned' = st.warned
            /\ events' = st.events
            /\ ret' = st.ret
            /\ history' = {}

\* A BetweenStats or BarStats object exists: its constructor returned, or
\* one of its methods was called.
IsBetweenObj ==
    \/ call.op = "BetweenStats" /\ raised = NoExc
    \/ call.op = "BetweenStats.plot"

IsBarObj ==
    \/ call.op = "BarStats" /\ raised = NoExc
    \/ call.op = "BarStats.plot"

BetweenPlotCall ==
    /\ IsBetweenObj
    /\ \E orientation \in orientations \cup {"invalid"}, cc \in ColorsArgs,
       scatter \in BOOLEAN :
        LET st == BetweenPlot(self, orientation, cc[1], cc[2], scatter)
        IN  /\ call' = [op |-> "BetweenStats.plot", orientation |-> orientation,
                        colors |-> cc[1], cycle |-> cc[2], scatter |-> scatter]
            /\ self' = st.self
            /\ raised' = st.raised
            /\ warned' = st.warned
            /\ events' = st.events
            /\ ret' = st.ret
            /\ history' = history \cup {Outcome("plot", st)}

BarPlotCall ==
    /\ IsBarObj
    /\ \E orientation \in orientations \cup {"invalid"}, cc \in ColorsArgs,
       plot_type \in plot_types \cup {"invalid"} :
        LET st == BarPlot(self, orientation, cc[1], cc[2], plot_type)
        IN  /\ call' = [op |-> "BarStats.plot", orientation |-> orientation,
                        colors |-> cc[1], cycle |-> cc[2],
                        plot_type |-> plot_type]
            /\ self' = st.self
            /\ raised' = st.raised
            /\ warned' = st.warned
            /\ events' = st.events
            /\ ret' = st.ret
            /\ history' = history \cup {Outcome("plot", st)}

NextPlot ==
    \/ GetFirstNColorsCall
    \/ BetweenStatsNewCall
    \/ BarStatsNewCall
    \/ BetweenPlotCall
    \/ BarPlotCall

SpecPlot == Init /\ [][NextPlot]_vars

\* The calls that draw: those on pyplot or on the Axes, and the helpers
\* that call them.
Draws(e) ==
    e \in {"plt.gca", "plt.gcf", "ax.violinplot", "ax.boxplot", "ax.scatter",
           "ax.text", "ax.plot", "ax.set_xticks", "ax.set_yticks", "ax.legend",
           "_themify", "_plot_stacked", "_plot_grouped"}

NothingDrawn(es) == \A i \in 1..Len(es) : ~Draws(es[i])

\* C18: BetweenStats.plot and BarStats.plot raise ValueError for an
\* orientation that is neither vertical nor horizontal, BarStats.plot also
\* for a plot_type that is neither stacked nor grouped; the failed call
\* draws nothing and leaves the object as it was (self.ax is not assigned).
C18_PlotRejects ==
    [][/\ (call'.op \in {"BetweenStats.plot", "BarStats.plot"}
              /\ call'.orientation \notin orientations) =>
              /\ raised' = Exc("ValueError", MsgOrientation)
              /\ NothingDrawn(events')
              /\ self' = self
              /\ ~HasAttr(self, "ax") => ~HasAttr(self', "ax")
       /\ (call'.op = "BarStats.plot" /\ call'.orientation \in orientations
              /\ call'.plot_type \notin plot_types) =>
              /\ raised' = Exc("ValueError", MsgPlotType)
              /\ NothingDrawn(events')
              /\ self' = self
              /\ ~HasAttr(self, "ax") => ~HasAttr(self', "ax")
       /\ (call'.op = "BetweenStats.plot" /\ call'.orientation \in orientations) =>
              raised' # Exc("ValueError", MsgOrientation)
       /\ (call'.op = "BarStats.plot" /\ call'.orientation \in orientations
              /\ call'.plot_type \in plot_types) =>
              raised'.msg \notin {MsgOrientation, MsgPlotType}
      ]_vars

\* BarStats.plot(plot_type="invalid") as the first call on a new object:
\* ValueError, and the object has no ax.
C18_Witness ==
    /\ call.op = "BarStats.plot" /\ call.orientation = "horizontal"
    /\ call.plot_type = "invalid"
    /\ raised = Exc("ValueError", MsgPlotType)
    /\ events = <<>> /\ ~HasAttr(self, "ax")
    /\ history = {"plot raised"}

\* C19: _get_first_n_colors(colors, n) raises ValueError for a supplied
\* list of fewer than n colours, returns a supplied list of at least n
\* colours unchanged, and for colors=None returns the first n colours of
\* the colour cycle, at most n of them; in BetweenStats.plot the check runs
\* before anything is drawn.
C19_FirstNColors ==
    [][/\ call'.op = "_get_first_n_colors" =>
              IF call'.colors = None
              THEN /\ raised' = NoExc
                   /\ Len(ret') <= call'.n_cat
                   /\ Len(ret') = Min(call'.n_cat, Len(call'.cycle))
                   /\ \A i \in 1..Len(ret') : ret'[i] = call'.cycle[i]
              ELSE IF Len(call'.colors.v) < call'.n_cat
                   THEN raised' = Exc("ValueError", MsgColors) /\ ret' = NoRet
                   ELSE raised' = NoExc /\ ret' = call'.colors.v
       /\ (call'.op = "BetweenStats.plot" /\ call'.orientation \in orientations) =>
              IF call'.colors # None /\ Len(call'.colors.v) < self["n_cat"]
              THEN /\ raised' = Exc("ValueError", MsgColors)
                   /\ NothingDrawn(events')
                   /\ self' = self
              ELSE /\ raised' = NoExc
                   /\ events'[1] = "_get_first_n_colors"
                   /\ ~NothingDrawn(events')
      ]_vars

\* BetweenStats.plot(colors=[one colour]) on an object of three categories.
C19_Witness ==
    /\ call.op = "BetweenStats.plot" /\ call.orientation = "vertical"
    /\ call.colors # None /\ Len(call.colors.v) = 1
    /\ self["n_cat"] = 3
    /\ raised = Exc("ValueError", MsgColors)
    /\ events = <<"_get_first_n_colors">> /\ ~HasAttr(self, "ax")

----------------------------------------------------------------------------
(* BetweenStats with approach = "robust": the values of trim *)

\* trim in percent: negative, 0, inside (0, 50), and 50.
TrimValues == {-10, 0, 20, 50}

WideKwargs ==
    {ev @@ tr : ev \in EqualVarKwargs,
                tr \in {Empty} \cup {("trim" :> t) : t \in TrimValues}}

BetweenStatsTrimCall ==
    /\ Idle
    /\ \E cx \in Cols({"String"}), paired \in BOOLEAN, approach \in Approaches,
       kwargs \in WideKwargs :
        LET x == Series("a", cx)
            y == Series("b", [dtype |-> "Float64",
                              n_unique |-> IF cx.n_unique = 0 THEN 0 ELSE MaxCat])
            st == BetweenStats(x, y, None, paired, approach, kwargs, FALSE)
        IN  /\ call' = [op |-> "BetweenStats", x |-> x, y |-> y, data |-> None,
                        paired |-> paired, approach |-> approach,
                        kwargs |-> kwargs, f_oneway_equal_var |-> FALSE]
            /\ self' = st.self
            /\ raised' = st.raised
            /\ warned' = st.warned
            /\ events' = st.events
            /\ ret' = st.ret
            /\ history' = {}

NextTrim == BetweenStatsTrimCall

SpecTrim == Init /\ [][NextTrim]_vars

\* Two categories, unpaired, approach = "robust".
RobustTwo ==
    /\ BetweenFitted /\ self["n_cat"] = 2
    /\ ~call.paired /\ call.approach = "robust"

TrimAbsent == "trim" \notin DOMAIN call.kwargs

\* C20 as stated: the warning is emitted when trim is absent or <= 0 and not
\* when trim > 0, and in all three cases construction succeeds with the
\* name Yuen.
C20_RobustAsStated ==
    RobustTwo =>
        /\ warned = IF TrimAbsent \/ call.kwargs["trim"] <= 0
                    THEN <<MsgRobustNoTrim>>
                    ELSE <<>>
        /\ raised = NoExc
        /\ HasAttr(self, "name") /\ self["name"] = "Yuen"

\* C20: two categories, unpaired, approach = "robust": the warning is
\* emitted when trim is absent or <= 0 and not when trim > 0; construction
\* succeeds with the name Yuen when trim is absent or in [0, 0.5), and
\* raises the ValueError of st.ttest_ind, before the name is assigned, for
\* every other trim.
C20_RobustTrim ==
    RobustTwo =>
        /\ warned = IF TrimAbsent \/ call.kwargs["trim"] <= 0
                    THEN <<MsgRobustNoTrim>>
                    ELSE <<>>
        /\ IF TrimAbsent \/ (0 <= call.kwargs["trim"] /\ call.kwargs["trim"] < 50)
           THEN /\ raised = NoExc
                /\ HasAttr(self, "name") /\ self["name"] = "Yuen"
           ELSE /\ raised = Exc("ValueError", MsgTrimRange)
                /\ ~HasAttr(self, "name")

\* trim = 0 with approach = "robust": the warning, and the name Yuen.
C20_Witness ==
    /\ RobustTwo /\ ~TrimAbsent /\ call.kwargs["trim"] = 0
    /\ warned = <<MsgRobustNoTrim>>
    /\ raised = NoExc /\ self["name"] = "Yuen"

----------------------------------------------------------------------------
(* The trim warning of BetweenStats._fit *)

\* The warnings of a call, as a set.
Warnings == {warned[i] : i \in DOMAIN warned}

\* C21: BetweenStats given trim with an approach other than robust warns
\* (Using trim argument without expliciting approach=robust is not
\* recommended) before any test is called: the warning is the first one of
\* every call that reaches _fit with such arguments, also when the test then
\* rejects trim with TypeError and when there are too few categories; with
\* approach robust, or without trim, it is never emitted.
C21_TrimWarning ==
    IsBetween =>
        /\ (MsgTrimNotRobust \in Warnings)
             <=> (/\ BetweenFitted
                  /\ "trim" \in DOMAIN call.kwargs
                  /\ call.approach # "robust")
        /\ MsgTrimNotRobust \in Warnings => warned[1] = MsgTrimNotRobust
        /\ call.approach = "robust" => MsgTrimNotRobust \notin Warnings

\* A nonparametric call with trim: warned, then the test rejected trim.
C21_Witness ==
    /\ IsBetween /\ call.approach = "nonparametric"
    /\ "trim" \in DOMAIN call.kwargs
    /\ warned = <<MsgTrimNotRobust>>
    /\ raised = Exc("TypeError", MsgUnexpectedKw)
    /\ TestsRun(events) # <<>>

\* Too few categories with trim: warned, and no test was called.
C21_WarnedTooFew ==
    /\ IsBetween /\ "trim" \in DOMAIN call.kwargs
    /\ warned = <<MsgTrimNotRobust>>
    /\ raised = Exc("ValueError", MsgTwoCategories)
    /\ TestsRun(events) = <<>>

----------------------------------------------------------------------------
(* fleur/_utils/count_decimals.py *)

\* Largest number of significant digits of a float.
MaxDigits == 3

\* The position of the decimal point of a float relative to its first
\* significant digit: the value is 0.d1d2...dn * 10^decpt, with at most
\* MaxLeadingZeros zeros between the point and d1.
MaxLeadingZeros == 6

MaxDecpt == 18

\* repr(float) switches to the exponent notation when decpt is outside
\* (ReprMinDecpt, ReprMaxDecpt].
ReprMinDecpt == -4

ReprMaxDecpt == 16

DecimalDigits == {0, 1, 2, 5}

\* Significant digits: the first and the last are not 0.
Significands ==
    {d \in UNION {[1..n -> DecimalDigits] : n \in 1..MaxDigits} :
        d[1] # 0 /\ d[Len(d)] # 0}

Float(digits, decpt) == [kind |-> "float", digits |-> digits, decpt |-> decpt]

FloatZero == Float(<<0>>, 1)

Integer(n) == [kind |-> "int", value |-> n]

Floats ==
    {FloatZero} \cup {Float(d, p) : d \in Significands, p \in -MaxLeadingZeros..MaxDecpt}

Ints == {Integer(n) : n \in {0, 7, 500, 12345}}

DigitChars == <<"0", "1", "2", "3", "4", "5", "6", "7", "8", "9">>

DigitChar(d) == DigitChars[d + 1]

Chars(digits) == [i \in DOMAIN digits |-> DigitChar(digits[i])]

Zeros(n) == [i \in 1..n |-> "0"]

RECURSIVE IntChars(_)
\* str(n) of an int n >= 0
IntChars(n) ==
    IF n < 10 THEN <<DigitChar(n)>> ELSE Append(IntChars(n \div 10), DigitChar(n % 10))

\* The exponent of the exponent notation: a sign and at least two digits.
ExpChars(e) ==
    LET a == IF e < 0 THEN -e ELSE e
    IN  <<"e", IF e < 0 THEN "-" ELSE "+">>
        \o (IF a < 10 THEN <<"0">> ELSE <<>>) \o IntChars(a)

\* repr of a float (the shortest digits that round-trip): the exponent
\* notation d[.ddd]e+XX for very small and very large values, otherwise the
\* positional notation, which always has a point.
float_repr(f) ==
    LET d == f.digits
        n == Len(d)
        p == f.decpt
    IN  IF p <= ReprMinDecpt \/ p > ReprMaxDecpt
        THEN <<DigitChar(d[1])>>
             \o (IF n > 1 THEN <<".">> \o Chars(SubSeq(d, 2, n)) ELSE <<>>)
             \o ExpChars(p - 1)
        ELSE IF p <= 0
             THEN <<"0", ".">> \o Zeros(-p) \o Chars(d)
             ELSE IF p < n
                  THEN Chars(SubSeq(d, 1, p)) \o <<".">> \o Chars(SubSeq(d, p + 1, n))
                  ELSE Chars(d) \o Zeros(p - n) \o <<".", "0">>

\* s = f"{f}"
format(f) == IF f.kind = "int" THEN IntChars(f.value) ELSE float_repr(f)

\* "." in s
HasPoint(s) == \E i \in DOMAIN s : s[i] = "."

\* s.split(".")[1], for a string with one point
decimal_part(s) ==
    LET i == CHOOSE i \in DOMAIN s : s[i] = "."
    IN  SubSeq(s, i + 1, Len(s))

RECURSIVE rstrip(_, _)
\* s.rstrip(c)
rstrip(s, c) ==
    IF s # <<>> /\ s[Len(s)] = c THEN rstrip(SubSeq(s, 1, Len(s) - 1), c) ELSE s

MsgNotNumber == "f must be a number, not:"

\* _count_n_decimals(f)
_count_n_decimals(f) ==
    IF f.kind \notin {"float", "int"}
    THEN Raise(Frame0, "TypeError", MsgNotNumber)
    ELSE LET s == format(f)
         IN  IF HasPoint(s)
             THEN [Frame0 EXCEPT !.ret = Len(rstrip(decimal_part(s), "0"))]
             ELSE [Frame0 EXCEPT !.ret = 0]

\* The arguments of _count_n_decimals: floats, ints, a string and a list.
Numbers == Floats \cup Ints \cup {Str("1.0"), Array("list", "x")}

CountNDecimalsCall ==
    /\ Idle
    /\ \E f \in Numbers :
        LET st == _count_n_decimals(f)
        IN  /\ call' = [op |-> "_count_n_decimals", f |-> f]
            /\ self' = st.self
            /\ raised' = st.raised
            /\ warned' = st.warned
            /\ events' = st.events
            /\ ret' = st.ret
            /\ history' = {}

----------------------------------------------------------------------------
(* fleur/data/datasets.py *)

UpperCase == <<"A", "C", "D", "I", "M", "N", "O", "P", "R", "S", "T">>

LowerCase == <<"a", "c", "d", "i", "m", "n", "o", "p", "r", "s", "t">>

\* str.lower(), a string being the sequence of its characters
lower(s) ==
    [i \in DOMAIN s |->
        IF \E k \in DOMAIN UpperCase : UpperCase[k] = s[i]
        THEN LowerCase[CHOOSE k \in DOMAIN UpperCase : UpperCase[k] = s[i]]
        ELSE s[i]]

AVAILABLE_DATASETS == {<<"i", "r", "i", "s">>, <<"m", "t", "c", "a", "r", "s">>}

AVAILABLE_OUTPUTS ==
    {<<"p", "a", "n", "d", "a", "s">>, <<"p", "o", "l", "a", "r", "s">>,
     <<"p", "y", "a", "r", "r", "o", "w">>, <<"m", "o", "d", "i", "n">>,
     <<"c", "u", "d", "f">>}

MsgDatasetName == "dataset_name must be one of:"

MsgBackend == "backend must be one of:"

MsgNoModule == "No module named"

\* Mutant of _load_data: the backend is checked before the dataset name.
_load_data_backend_first(dataset_name, backend, installed) ==
    LET name == lower(dataset_name)
        out == lower(backend)
    IN  IF out \notin AVAILABLE_OUTPUTS
        THEN Raise(Frame0, "ValueError", MsgBackend)
        ELSE IF name \notin AVAILABLE_DATASETS
             THEN Raise(Frame0, "ValueError", MsgDatasetName)
             ELSE LET s1 == Event(Frame0, "read_csv")
                  IN  IF ~installed
                      THEN Raise(s1, "ModuleNotFoundError", MsgNoModule)
                      ELSE [s1 EXCEPT !.ret =
                               [file |-> name \o <<".", "c", "s", "v">>,
                                backend |-> out]]

\* _load_data(dataset_name, backend): nw.read_csv needs the library of the
\* backend, installed or not.
_load_data(dataset_name, backend, installed) ==
    LET name == lower(dataset_name)
        out == lower(backend)
    IN  IF name \notin AVAILABLE_DATASETS
        THEN Raise(Frame0, "ValueError", MsgDatasetName)
        ELSE IF out \notin AVAILABLE_OUTPUTS
             THEN Raise(Frame0, "ValueError", MsgBackend)
             ELSE LET s1 == Event(Frame0, "read_csv")
                  IN  IF ~installed
                      THEN Raise(s1, "ModuleNotFoundError", MsgNoModule)
                      ELSE [s1 EXCEPT !.ret =
                               [file |-> name \o <<".", "c", "s", "v">>,
                                backend |-> out]]

DatasetNames ==
    AVAILABLE_DATASETS
    \cup {<<"I", "R", "I", "S">>, <<"I", "r", "i", "s">>,
          <<"M", "t", "C", "a", "r", "s">>, <<"i", "r", "i">>,
          <<"i", "r", "i", "s", " ">>, <<>>}

Backends ==
    AVAILABLE_OUTPUTS
    \cup {<<"P", "A", "N", "D", "A", "S">>, <<"P", "o", "l", "a", "r", "s">>,
          <<"n", "u", "m", "p", "y">>, <<"c", "s", "v">>, <<>>}

LoadDataCall ==
    /\ Idle
    /\ \E dataset_name \in DatasetNames, backend \in Backends,
          installed \in BOOLEAN :
        LET st == _load_data(dataset_name, backend, installed)
        IN  /\ call' = [op |-> "_load_data", dataset_name |-> dataset_name,
                        backend |-> backend, installed |-> installed]
            /\ self' = st.self
            /\ raised' = st.raised
            /\ warned' = st.warned
            /\ events' = st.events
            /\ ret' = st.ret
            /\ history' = {}

NextUtils ==
    \/ CountNDecimalsCall
    \/ LoadDataCall

SpecUtils == Init /\ [][NextUtils]_vars

IsCountNDecimals == call.op = "_count_n_decimals"

IsLoadData == call.op = "_load_data"

\* The number of digits after the decimal point of a number, trailing zeros
\* removed: a float 0.d1...dn * 10^decpt has n - decpt of them, or none.
n_decimals(f) ==
    IF f.kind = "int" \/ f = FloatZero
    THEN 0
    ELSE IF Len(f.digits) > f.decpt THEN Len(f.digits) - f.decpt ELSE 0

\* C22: _count_n_decimals(f) returns, for every int or float, the number of
\* digits after the decimal point with trailing zeros removed (0 for an int
\* and for a float with no fractional part), and raises TypeError for every
\* argument that is neither.
C22_CountsDecimals ==
    IsCountNDecimals =>
        IF call.f.kind \in {"int", "float"}
        THEN raised = NoExc /\ ret = n_decimals(call.f)
        ELSE raised = Exc("TypeError", MsgNotNumber)

\* 0.00001, whose repr is 1e-05: five decimals, and 0 returned.
C22_Witness ==
    /\ IsCountNDecimals
    /\ call.f = Float(<<1>>, -4)
    /\ raised = NoExc
    /\ ret = 0

\* The part of the claim that holds: the numbers whose repr is positional,
\* and the arguments that are not numbers.
C22_Positional ==
    IsCountNDecimals =>
        IF call.f.kind \in {"int", "float"}
        THEN /\ raised = NoExc
             /\ (call.f.kind = "float" /\ (call.f.decpt <= ReprMinDecpt
                                           \/ call.f.decpt > ReprMaxDecpt))
                \/ ret = n_decimals(call.f)
        ELSE raised = Exc("TypeError", MsgNotNumber)

\* C23: _load_data compares dataset_name and backend case-insensitively;
\* it raises ValueError (dataset_name must be one of:) when the name is
\* neither iris nor mtcars, otherwise ValueError (backend must be one of:)
\* when the backend is not one of pandas, polars, pyarrow, modin, cudf; the
\* name is checked first and no file is read when either check fails.
C23_LoadDataChecks ==
    IsLoadData =>
        LET name_ok == lower(call.dataset_name) \in AVAILABLE_DATASETS
            backend_ok == lower(call.backend) \in AVAILABLE_OUTPUTS
        IN  /\ ~name_ok <=> raised = Exc("ValueError", MsgDatasetName)
            /\ (name_ok /\ ~backend_ok) <=> raised = Exc("ValueError", MsgBackend)
            /\ raised.type = "ValueError" => events = <<>> /\ ret = NoRet
            /\ (name_ok /\ backend_ok) => events = <<"read_csv">>
            /\ (name_ok /\ backend_ok /\ call.installed) =>
                   /\ raised = NoExc
                   /\ ret.file = lower(call.dataset_name) \o <<".", "c", "s", "v">>
                   /\ ret.backend = lower(call.backend)

\* A mixed-case name with an invalid backend, and an invalid name with an
\* invalid backend: the second fails on the name.
C23_Witness ==
    /\ IsLoadData
    /\ call.dataset_name = <<"i", "r", "i">>
    /\ call.backend = <<"n", "u", "m", "p", "y">>
    /\ raised = Exc("ValueError", MsgDatasetName)
    /\ events = <<>>

\* An upper-case name and backend are accepted and the file is read.
C23_CaseInsensitive ==
    /\ IsLoadData
    /\ call.dataset_name = <<"I", "R", "I", "S">>
    /\ call.backend = <<"P", "A", "N", "D", "A", "S">>
    /\ raised = NoExc
    /\ events = <<"read_csv">>

----------------------------------------------------------------------------
(* BarStats: what a construction leaves on the object *)

\* The parts of a string, as a set.
Parts(s) == {s[i] : i \in DOMAIN s}

\* The test BarStats ended on: the chi-square test, Fisher's exact test on
\* a 2x2 table, or Fisher's exact test on a larger table.
BarPath ==
    IF self["test_name"] = "Chi-square"
    THEN "chi-square"
    ELSE IF self["contingency_table"] = <<2, 2>> THEN "fisher 2x2" ELSE "fisher RxC"

\* C24: after every successful BarStats construction, on the chi-square
\* path and on both Fisher paths (2x2 and RxC), expression starts with $,
\* ends with $ and contains both p = and n_{obs}, and the attributes
\* statistic, pvalue, test_name, cramers_v and expression all exist.
C24_BarExpression ==
    (IsBar /\ raised = NoExc) =>
        /\ {"statistic", "pvalue", "test_name", "cramers_v", "expression"}
               \subseteq DOMAIN self
        /\ BarPath \in {"chi-square", "fisher 2x2", "fisher RxC"}
        /\ LET expression == self["expression"]
           IN  /\ Len(expression) >= 2
               /\ expression[1] = "$"
               /\ expression[Len(expression)] = "$"
               /\ {"p =", "n_{obs}"} \subseteq Parts(expression)

\* A construction on the chi-square path (a 3x3 table).
C24_Witness ==
    /\ IsBar /\ raised = NoExc
    /\ BarPath = "chi-square"
    /\ self["contingency_table"] = <<3, 3>>
    /\ "V_{Cramer}" \in Parts(self["expression"])

\* A construction on the Fisher path of a table larger than 2x2.
C24_FisherRxC ==
    /\ IsBar /\ raised = NoExc
    /\ BarPath = "fisher RxC"
    /\ "Likelihood" \in Parts(self["expression"])

\* A construction on the Fisher path of a 2x2 table.
C24_Fisher2x2 ==
    /\ IsBar /\ raised = NoExc
    /\ BarPath = "fisher 2x2"
    /\ "OR" \in Parts(self["expression"])

\* A BarStats call with approach freq and paired False whose input was
\* accepted, scipy being a release whose fisher_exact takes RxC tables.
BarFreq ==
    /\ IsBar /\ HasAttr(self, "contingency_table")
    /\ call.approach = "freq" /\ ~call.paired /\ call.fisher_rxc

\* The test BarStats is to select.
BarExpectFisher ==
    self["contingency_table"] = <<2, 2>> \/ call.min_expected < FisherThreshold

\* The attributes of the two paths.
BarPathAttributes ==
    IF self["test_name"] = "Fisher's exact"
    THEN /\ self["statistic"] = "None" /\ self["cramers_v"] = "None"
         /\ HasAttr(self, "odds_ratio")
         /\ self["odds_ratio"] = "float" <=> self["contingency_table"] = <<2, 2>>
    ELSE /\ self["statistic"] = "float" /\ self["dof"] = "int"
         /\ HasAttr(self, "cramers_v") /\ self["cramers_v"] = "float"

\* C25: BarStats with approach freq and paired False: test_name is Fisher's
\* exact exactly when the contingency table is 2x2 or some expected
\* frequency is below 5, and Chi-square otherwise; on the Fisher path
\* statistic and cramers_v are None and odds_ratio is a number only for a
\* 2x2 table; on the chi-square path statistic, dof and cramers_v are set.
\* paired True and approach bayes both raise NotImplementedError.
C25_BarSelection ==
    /\ BarFreq =>
        /\ raised = NoExc
        /\ self["test_name"] = "Fisher's exact" <=> BarExpectFisher
        /\ self["test_name"] = "Chi-square" <=> ~BarExpectFisher
        /\ BarPathAttributes
    /\ (IsBar /\ HasAttr(self, "contingency_table")
            /\ (call.paired \/ call.approach = "bayes")) =>
           raised.type = "NotImplementedError"

\* One x value, two y values and expected frequencies of 5 and more: the
\* chi-square path, ended by the division by min_dim = 0.
C25_Witness ==
    /\ BarFreq
    /\ self["contingency_table"] = <<1, 2>>
    /\ call.min_expected >= FisherThreshold
    /\ raised = Exc("ZeroDivisionError", MsgZeroDivision)
    /\ ~HasAttr(self, "cramers_v")

\* What holds of C25: the selection and the attributes of every
\* construction that returns, and the two NotImplementedError.
C25_SelectionOfReturned ==
    /\ (BarFreq /\ raised = NoExc) =>
        /\ self["test_name"] = "Fisher's exact" <=> BarExpectFisher
        /\ self["test_name"] = "Chi-square" <=> ~BarExpectFisher
        /\ BarPathAttributes
    /\ (BarFreq /\ raised # NoExc) =>
        /\ raised = Exc("ZeroDivisionError", MsgZeroDivision)
        /\ 1 \in Parts(self["contingency_table"])
        /\ ~BarExpectFisher
    /\ (IsBar /\ HasAttr(self, "contingency_table")
            /\ (call.paired \/ call.approach = "bayes")) =>
           raised.type = "NotImplementedError"

----------------------------------------------------------------------------
(* BetweenStats: what a construction leaves on the object *)

FitAttributes ==
    {"name", "_letter", "statistic", "pvalue", "main_stat", "_expression"}

\* C26: every BetweenStats construction that returns without raising has
\* set name, _letter, statistic, pvalue, main_stat and _expression, for
\* every combination of a category count >= 2, paired, approach and
\* equal_var (absent, true, false); no combination ends in an
\* AttributeError or leaves one of these attributes missing.
C26_FitAttributes ==
    (BetweenFitted /\ self["n_cat"] >= 2) =>
        /\ raised.type # "AttributeError"
        /\ raised = NoExc => FitAttributes \subseteq DOMAIN self

\* Three categories, approach parametric, equal_var=True and an f_oneway
\* that takes equal_var: the test returned, name was never assigned.
C26_Witness ==
    /\ BetweenFitted /\ self["n_cat"] = 3
    /\ call.approach = "parametric" /\ ~call.paired
    /\ "equal_var" \in DOMAIN call.kwargs /\ call.kwargs["equal_var"]
    /\ call.f_oneway_equal_var
    /\ TestsRun(events) = <<"f_oneway">>
    /\ ~HasAttr(self, "name")
    /\ raised = Exc("AttributeError", MsgNoAttribute)

\* What holds of C26: a construction that returns has the six attributes,
\* and the AttributeError is the one of three and more categories with
\* equal_var=True.
C26_FitAttributesOfReturned ==
    (BetweenFitted /\ self["n_cat"] >= 2) =>
        /\ raised = NoExc => FitAttributes \subseteq DOMAIN self
        /\ raised.type = "AttributeError" =>
               /\ self["n_cat"] >= 3 /\ call.approach = "parametric"
               /\ "equal_var" \in DOMAIN call.kwargs /\ call.kwargs["equal_var"]

----------------------------------------------------------------------------
(* _InputDataHandler: the dataframe of get_info() *)

\* C27: for every input _InputDataHandler accepts, the dataframe of
\* get_info() has two distinct columns named x_name and y_name, holding the
\* x values and the y values; this includes two Series of the same name and
\* a named Series with an unnamed one that defaults to x or y.
C27_TwoColumns ==
    (IsHandler /\ raised = NoExc) =>
        LET columns == self["dataframe"].columns
        IN  /\ self["x_name"] # self["y_name"]
            /\ {self["x_name"], self["y_name"]} \subseteq DOMAIN columns
            /\ columns[self["x_name"]] = self["x"]
            /\ columns[self["y_name"]] = self["y"]

\* Two Series named a with different values: the dataframe has the one
\* column a, which holds the y values.
C27_Witness ==
    /\ IsHandler /\ raised = NoExc
    /\ call.x.kind = "series" /\ call.y.kind = "series"
    /\ call.x.name = "a" /\ call.y.name = "a"
    /\ call.x.col # call.y.col
    /\ DOMAIN self["dataframe"].columns = {"a"}
    /\ self["dataframe"].columns["a"] = call.y.col
    /\ self["x"] = call.x.col

\* An unnamed Series as x with a Series named x as y: both are named x.
C27_DefaultNameTaken ==
    /\ IsHandler /\ raised = NoExc
    /\ call.x.kind = "series" /\ call.y.kind = "series"
    /\ call.x.name = "" /\ call.y.name = "x"
    /\ DOMAIN self["dataframe"].columns = {"x"}

\* What holds of C27: with two names that differ, the dataframe has both
\* columns with the values of x and of y.
C27_TwoColumnsOfDistinctNames ==
    (IsHandler /\ raised = NoExc /\ self["x_name"] # self["y_name"]) =>
        LET columns == self["dataframe"].columns
        IN  /\ {self["x_name"], self["y_name"]} \subseteq DOMAIN columns
            /\ columns[self["x_name"]] = self["x"]
            /\ columns[self["y_name"]] = self["y"]

----------------------------------------------------------------------------
(* _beeswarm: the bins of the layout loop *)

\* The bins of the layout loop that hold point p.
BinsOf(y, p) ==
    LET e == bin_edges(y)
    IN  {i \in 1..e.nbins : p \in in_bin(y, e, i)}

\* C28: _beeswarm places every point in exactly one bin of its layout loop,
\* none is skipped and none handled twice; so for width > 0 every point,
\* the points equal to the minimum of y included, gets an offset that is
\* not zero.
C28_EveryPointPlaced ==
    IsBeeswarm =>
        \A p \in 1..Len(call.y) :
            /\ Cardinality(BinsOf(call.y, p)) = 1
            /\ call.width > 0 => ret.x_offsets[p] # 0

\* Three points at the minimum and one above: the three are in no bin of
\* the loop and stay at offset 0, one on the other.
C28_Witness ==
    /\ IsBeeswarm
    /\ call.y = <<1, 1, 1, 2>> /\ call.width = 1
    /\ \A p \in 1..3 : BinsOf(call.y, p) = {} /\ ret.x_offsets[p] = 0
    /\ BinsOf(call.y, 4) = {1} /\ ret.x_offsets[4] # 0

\* What holds of C28: no point is in two bins, and the points in no bin are
\* the points equal to the minimum of a y that has two values or more;
\* for width > 0 they are the points whose offset is zero.
C28_MinimumSkipped ==
    IsBeeswarm =>
        \A p \in 1..Len(call.y) :
            /\ Cardinality(BinsOf(call.y, p)) <= 1
            /\ BinsOf(call.y, p) = {}
                 <=> (call.y[p] = SeqMin(call.y) /\ SeqMin(call.y) # SeqMax(call.y))
            /\ call.width > 0 => (ret.x_offsets[p] = 0 <=> BinsOf(call.y, p) = {})

----------------------------------------------------------------------------
(* BetweenStats on the rows of the data: the groups *)

\* Largest number of rows of the data of a BetweenStats call.
MaxObs == 3

GroupLevels == {"a", "b", "c"}

Measures == {1, 2}

\* The rows of the data, as (category, value) pairs.
ObsSeqs == UNION {[1..n -> GroupLevels \X Measures] : n \in 1..MaxObs}

\* A column given as a list of numbers.
NumbersOf(values) ==
    Array("list", [dtype |-> "Float64",
                   n_unique |-> Cardinality({values[i] : i \in 1..Len(values)}),
                   values |-> values])

\* The orders a set of categories can come in.
Orders(S) ==
    {o \in [1..Cardinality(S) -> S] : \A i, j \in DOMAIN o : o[i] = o[j] => i = j}

\* sub_df[num_col].to_list() of the group of category c
GroupValues(cats, nums, c) ==
    LET F[i \in 0..Len(cats)] ==
            IF i = 0
            THEN <<>>
            ELSE IF cats[i] = c THEN Append(F[i - 1], nums[i]) ELSE F[i - 1]
    IN  F[Len(cats)]

\* np.mean(group), kept as the sum and the number of values
mean(group) == [sum |-> SumOver(group, DOMAIN group), n |-> Len(group)]

\* Lines 86-91 of __init__.  df.group_by(cat_col) is iterated twice and
\* df[cat_col].unique() is called once; the library fixes no order of the
\* groups or of the unique values: order.result, order.sizes and
\* order.unique are the orders the three calls happened to return.
BetweenGroups(st, cats, nums, order) ==
    LET _result == [i \in DOMAIN order.result |->
                        GroupValues(cats, nums, order.result[i])]
        _sample_sizes == [i \in DOMAIN order.sizes |->
                              Len(GroupValues(cats, nums, order.sizes[i]))]
    IN  SetAttr(SetAttr(SetAttr(SetAttr(SetAttr(st,
            "_result", _result), "_sample_sizes", _sample_sizes),
            "_cat_labels", order.unique), "n_obs", Len(cats)),
            "means", [i \in DOMAIN _result |-> mean(_result[i])])

\* BetweenStats.__init__(x, y, data, paired, approach, **kwargs) with the
\* groups computed from the rows.
BetweenStatsRows(x, y, data, paired, approach, kwargs, lib, order) ==
    IF approach \notin valid_approachs
    THEN Raise(Frame0, "ValueError", MsgApproach)
    ELSE LET h == InputDataHandler(Frame0, x, y, data)
             s1 == Event(Frame0, "_InputDataHandler")
         IN  IF ~Ok(h)
             THEN [s1 EXCEPT !.raised = h.raised]
             ELSE LET info == h.self
                      df == info["dataframe"]
                      s2 == SetAttr(SetAttr(s1, "_data_info", info),
                                    "is_paired", paired)
                      it == infer_types(info["x_name"], info["y_name"], Schema(df))
                      s3 == Event(s2, "_infer_types")
                  IN  IF it.raised # NoExc
                      THEN [s3 EXCEPT !.raised = it.raised]
                      ELSE LET cat_col == it.ret[1]
                               num_col == it.ret[2]
                               s4 == SetAttr(SetAttr(s3, "_cat_col", cat_col),
                                             "_num_col", num_col)
                               s5 == BetweenGroups(s4, df.columns[cat_col].values,
                                                   df.columns[num_col].values, order)
                           IN  BetweenFit(
                                   SetAttr(s5, "n_cat", df.columns[cat_col].n_unique),
                                   approach, kwargs, lib)

\* The tick labels of plot() (lines 344-348): label and n = size, by
\* position.
tick_labels(obj) ==
    [i \in 1..Min(Len(obj["_sample_sizes"]), Len(obj["_cat_labels"])) |->
        [label |-> obj["_cat_labels"][i], n |-> obj["_sample_sizes"][i]]]

\* BetweenStats.plot(orientation) with what it puts on the Axes: the
\* groups of values drawn at the positions 1, 2, ..., the means drawn at
\* these positions, and the tick labels.
BetweenPlotRows(obj, orientation, colors, cycle, scatter) ==
    LET st == BetweenPlot(obj, orientation, colors, cycle, scatter)
    IN  IF ~Ok(st)
        THEN st
        ELSE [st EXCEPT !.ret = [fig |-> "fig",
                                 drawn |-> obj["_result"],
                                 means |-> obj["means"],
                                 ticks |-> tick_labels(obj)]]

BetweenStatsRowsCall ==
    /\ Idle
    /\ \E rows \in ObsSeqs :
        LET cats == Column(rows, 1)
            nums == Column(rows, 2)
            levels == {cats[i] : i \in 1..Len(cats)}
        IN  \E result \in Orders(levels), sizes \in Orders(levels),
               unique \in Orders(levels) :
                LET x == ListOf(cats)
                    y == NumbersOf(nums)
                    order == [result |-> result, sizes |-> sizes, unique |-> unique]
                    st == BetweenStatsRows(x, y, None, FALSE, "parametric",
                                           Empty, FALSE, order)
                IN  /\ call' = [op |-> "BetweenStatsRows", x |-> x, y |-> y,
                                cats |-> cats, nums |-> nums, order |-> order]
                    /\ self' = st.self
                    /\ raised' = st.raised
                    /\ warned' = st.warned
                    /\ events' = st.events
                    /\ ret' = st.ret
                    /\ history' = {}

\* plot() on an object that BetweenStatsRowsCall built.
BetweenPlotRowsCall ==
    /\ call.op = "BetweenStatsRows" /\ raised = NoExc
    /\ \E orientation \in orientations :
        LET st == BetweenPlotRows(self, orientation, None, Cycle(12), TRUE)
        IN  /\ call' = [call EXCEPT !.op = "BetweenStatsRows.plot"]
            /\ self' = st.self
            /\ raised' = st.raised
            /\ warned' = st.warned
            /\ events' = st.events
            /\ ret' = st.ret
            /\ history' = history \cup {Outcome("plot", st)}

NextGroups ==
    \/ BetweenStatsRowsCall
    \/ BetweenPlotRowsCall

SpecGroups == Init /\ [][NextGroups]_vars

\* A BetweenStats built on rows.
IsGroups == call.op = "BetweenStatsRows" /\ raised = NoExc

IsGroupsPlot == call.op = "BetweenStatsRows.plot" /\ raised = NoExc

\* The sum of the sample sizes.
SumSizes == SumOver(self["_sample_sizes"], DOMAIN self["_sample_sizes"])

\* C29: in BetweenStats the i-th list of values (_result[i]), the i-th
\* sample size (_sample_sizes[i]), the i-th mean (means[i]) and the i-th
\* label (_cat_labels[i]) belong to the same category, whatever order the
\* two group_by passes and the unique() call return the categories in; so
\* each tick label and n = count describes the group drawn at its position,
\* and the sample sizes sum to n_obs.
C29_GroupsAligned ==
    /\ (IsGroups \/ IsGroupsPlot) =>
        /\ \A i \in 1..self["n_cat"] :
            LET group == GroupValues(call.cats, call.nums, self["_cat_labels"][i])
            IN  /\ self["_result"][i] = group
                /\ self["_sample_sizes"][i] = Len(group)
                /\ self["means"][i] = mean(group)
        /\ SumSizes = self["n_obs"]
    /\ IsGroupsPlot =>
        \A i \in 1..self["n_cat"] :
            /\ ret.ticks[i].n = Len(ret.drawn[i])
            /\ ret.drawn[i] = GroupValues(call.cats, call.nums, ret.ticks[i].label)

\* Rows (a, 1), (a, 1), (b, 2) with the groups iterated as b, a and the
\* labels as a, b: the tick of the first position reads a, n = 2 over the
\* one value of b.
C29_Witness ==
    /\ IsGroupsPlot
    /\ call.cats = <<"a", "a", "b">> /\ call.nums = <<1, 1, 2>>
    /\ ret.drawn = <<(<<2>>), <<1, 1>>>>
    /\ ret.ticks[1] = [label |-> "a", n |-> 2]

\* What holds of C29: the means go with the lists of values whatever the
\* orders, the sample sizes sum to n_obs, and everything is aligned when
\* the three calls return the categories in one order.
C29_AlignedInOneOrder ==
    (IsGroups \/ IsGroupsPlot) =>
        /\ \A i \in 1..self["n_cat"] : self["means"][i] = mean(self["_result"][i])
        /\ SumSizes = self["n_obs"]
        /\ (call.order.result = call.order.sizes
                /\ call.order.sizes = call.order.unique) =>
               \A i \in 1..self["n_cat"] :
                   LET group == GroupValues(call.cats, call.nums,
                                            self["_cat_labels"][i])
                   IN  /\ self["_result"][i] = group
                       /\ self["_sample_sizes"][i] = Len(group)

----------------------------------------------------------------------------
(* inferplot/betweenstats.py: BetweenStats.fit and BetweenStats.summary,   *)
(* class methods that keep their results as attributes of the class.  self *)
(* holds the attributes of the class, from one call to the next.           *)

MsgInferplotOrientation ==
    "orientation argument must be one of: 'vertical', 'horizontal'."

MsgColumnsNotFound == "Columns not found in the dataframe"

MsgOneOfEach ==
    "Either both columns are categorical or both are numerical. Function requires one categorical and one numerical column."

MsgUnequalLength == "unequal length arrays"

MsgUnbound == "cannot access local variable 'violin_artists'"

MsgMustFit == "Must call 'fit()' before calling 'summary()'."

\* inferplot/_utils/infer_types.py: a column is categorical when its dtype
\* is object or category, or when it is numeric with few distinct values
\* (at most 10, and fewer than 5 % of the rows); it is numerical when it is
\* numeric and not categorical.
inferplot_is_categorical(column) ==
    column.dtype \in {"object", "category"} \/ (column.dtype = "numeric" /\ column.few)

inferplot_is_numerical(column) ==
    column.dtype = "numeric" /\ ~inferplot_is_categorical(column)

inferplot_infer_types(x, y, columns) ==
    IF x \notin DOMAIN columns \/ y \notin DOMAIN columns
    THEN Raise(Frame0, "ValueError", MsgColumnsNotFound)
    ELSE IF inferplot_is_categorical(columns[x]) /\ inferplot_is_numerical(columns[y])
         THEN [Frame0 EXCEPT !.ret = <<x, y>>]
         ELSE IF inferplot_is_numerical(columns[x]) /\ inferplot_is_categorical(columns[y])
              THEN [Frame0 EXCEPT !.ret = <<y, x>>]
              ELSE Raise(Frame0, "ValueError", MsgOneOfEach)

\* The data of a fit as far as the results depend on it: the number of
\* categories, the number of rows, and whether the groups have one size.
Fitted(data, paired) == [n_cat |-> data.n_cat, n |-> data.n, paired |-> paired]

\* A result computed from the data of a fit.
ResultOf(what, data, paired) == <<what, Fitted(data, paired)>>

\* Lines 145-177 of fit: the test, with the class attributes it assigns on
\* its way.
InferplotBetweenTest(st, data, paired) ==
    IF data.n_cat < 2
    THEN Raise(st, "ValueError", MsgTwoCategories)
    ELSE IF data.n_cat = 2
         THEN LET s1 == SetAttr(st, "is_ANOVA", FALSE)
                  s2 == Event(s1, IF paired THEN "ttest_rel" ELSE "ttest_ind")
              IN  IF paired /\ ~data.balanced
                  THEN Raise(s2, "ValueError", MsgUnequalLength)
                  ELSE SetAttr(SetAttr(s2,
                           "name", IF paired THEN "Paired t-test" ELSE "T-test"),
                           "dof", ResultOf("dof", data, paired))
         ELSE LET s1 == SetAttr(st, "is_ANOVA", TRUE)
              IN  IF paired
                  THEN Raise(s1, "NotImplementedError", MsgRepeated)
                  ELSE SetAttr(SetAttr(SetAttr(Event(s1, "f_oneway"),
                           "name", "One-way ANOVA"),
                           "dof_between", data.n_cat - 1),
                           "dof_within", data.n - data.n_cat)

\* Lines 201-209 of fit.
InferplotBetweenStore(st, data, paired) ==
    SetAttr(SetAttr(SetAttr(SetAttr(SetAttr(SetAttr(SetAttr(SetAttr(SetAttr(st,
        "statistic", ResultOf("statistic", data, paired)),
        "pvalue", ResultOf("pvalue", data, paired)),
        "main_stat", ResultOf("main_stat", data, paired)),
        "ax", "ax"),
        "is_paired", paired),
        "expression", <<"$", ResultOf("main_stat", data, paired),
                        ResultOf("pvalue", data, paired), data.n, "$">>),
        "n_cat", data.n_cat),
        "n_obs", data.n),
        "_is_fitted", TRUE)

\* BetweenStats.fit(x, y, data, orientation, paired, colors, plot_violin) on
\* the class with the attributes cls; plot_box and plot_scatter are True and
\* ax is None.
InferplotBetweenFit(cls, x, y, data, orientation, paired, colors, plot_violin) ==
    LET st == Method(cls)
    IN  IF orientation \notin orientations
        THEN Raise(st, "ValueError", MsgInferplotOrientation)
        ELSE LET it == inferplot_infer_types(x, y, data.columns)
                 s1 == Event(st, "_infer_types")
             IN  IF ~Ok(it)
                 THEN [s1 EXCEPT !.raised = it.raised]
                 ELSE IF colors # None /\ Len(colors.v) < data.n_cat
                      THEN Raise(s1, "ValueError", MsgColors)
                      ELSE LET s2 == Event(s1, "plt.gca")
                               s3 == IF plot_violin
                                     THEN Event(s2, "ax.violinplot") ELSE s2
                               s4 == Repeat(Event(s3, "ax.boxplot"), data.n_cat,
                                            <<"ax.scatter">>)
                           IN  IF ~plot_violin
                               THEN Raise(s4, "UnboundLocalError", MsgUnbound)
                               ELSE LET s5 == InferplotBetweenTest(s4, data, paired)
                                    IN  IF ~Ok(s5)
                                        THEN s5
                                        ELSE [InferplotBetweenStore(
                                                 Event(Event(s5, "ax.text"),
                                                       "themify"),
                                                 data, paired)
                                              EXCEPT !.ret = "cls"]

\* BetweenStats.summary() on the class with the attributes cls: what it
\* prints.
InferplotBetweenSummary(cls) ==
    LET st == Method(cls)
    IN  IF ~HasAttr(cls, "_is_fitted")
        THEN Raise(st, "RuntimeError", MsgMustFit)
        ELSE [Event(st, "print") EXCEPT !.ret =
                 [name |-> cls["name"],
                  groups |-> IF cls["is_ANOVA"] THEN cls["n_cat"] ELSE 0,
                  expression |-> cls["expression"]]]

\* The columns of the data: g holds strings, v numbers, k numbers with few
\* distinct values.
ClassColumns ==
    [g |-> [dtype |-> "object", few |-> TRUE],
     v |-> [dtype |-> "numeric", few |-> FALSE],
     k |-> [dtype |-> "numeric", few |-> TRUE]]

\* The number of rows of the data.
ClassRows == 6

ClassData ==
    {[columns |-> ClassColumns, n_cat |-> c, n |-> ClassRows, balanced |-> b] :
        c \in 1..MaxCat, b \in BOOLEAN}

FitArgs(x, y, data, orientation, paired, colors, plot_violin) ==
    [x |-> x, y |-> y, data |-> data, orientation |-> orientation,
     paired |-> paired, colors |-> colors, plot_violin |-> plot_violin]

\* The arguments of a fit: the calls that get as far as the test, on every
\* data, and one call for each way of failing before it.
ClassFitArgs ==
    {FitArgs(xy[1], xy[2], data, "vertical", paired, None, TRUE) :
        xy \in {<<"g", "v">>, <<"v", "k">>}, data \in ClassData,
        paired \in BOOLEAN}
    \cup UNION {{FitArgs("g", "v", data, "invalid", FALSE, None, TRUE),
                 FitArgs("g", "w", data, "horizontal", FALSE, None, TRUE),
                 FitArgs("g", "k", data, "horizontal", FALSE, None, TRUE),
                 FitArgs("g", "v", data, "horizontal", FALSE,
                         Given(ColorList(1)), TRUE),
                 FitArgs("g", "v", data, "horizontal", FALSE,
                         Given(ColorList(MaxCat)), FALSE)} :
                    data \in {d \in ClassData : d.n_cat = MaxCat /\ d.balanced}}

InferplotFitCall ==
    \E args \in ClassFitArgs :
        LET st == InferplotBetweenFit(self, args.x, args.y, args.data,
                                      args.orientation, args.paired,
                                      args.colors, args.plot_violin)
        IN  /\ call' = [op |-> "BetweenStats.fit"] @@ args
            /\ self' = st.self
            /\ raised' = st.raised
            /\ warned' = st.warned
            /\ events' = st.events
            /\ ret' = st.ret
            /\ history' = history \cup {Outcome("fit", st)}

InferplotSummaryCall ==
    LET st == InferplotBetweenSummary(self)
    IN  /\ call' = [op |-> "BetweenStats.summary"]
        /\ self' = st.self
        /\ raised' = st.raised
        /\ warned' = st.warned
        /\ events' = st.events
        /\ ret' = st.ret
        /\ history' = history \cup {Outcome("summary", st)}

NextClass ==
    \/ InferplotFitCall
    \/ InferplotSummaryCall

SpecClass == Init /\ [][NextClass]_vars

\* The result attributes of the class.
ResultAttributes ==
    {"is_ANOVA", "name", "dof", "dof_between", "dof_within", "statistic",
     "pvalue", "n_cat", "n_obs", "expression"}

\* The result attributes of the class cls, with their values.
Results(cls) == [a \in DOMAIN cls \cap ResultAttributes |-> cls[a]]

\* The result attributes a fit of data describes: those of a t-test for
\* two categories, those of an ANOVA for more.
ResultsOf(data, paired) ==
    LET common ==
            [a \in {"is_ANOVA", "name", "statistic", "pvalue", "n_cat", "n_obs",
                    "expression"} |->
                CASE a = "is_ANOVA" -> data.n_cat >= 3
                  [] a = "name" -> IF data.n_cat >= 3 THEN "One-way ANOVA"
                                   ELSE IF paired THEN "Paired t-test" ELSE "T-test"
                  [] a = "statistic" -> ResultOf("statistic", data, paired)
                  [] a = "pvalue" -> ResultOf("pvalue", data, paired)
                  [] a = "n_cat" -> data.n_cat
                  [] a = "n_obs" -> data.n
                  [] a = "expression" ->
                         <<"$", ResultOf("main_stat", data, paired),
                           ResultOf("pvalue", data, paired), data.n, "$">>]
    IN  IF data.n_cat >= 3
        THEN Put(Put(common, "dof_between", data.n_cat - 1),
                 "dof_within", data.n - data.n_cat)
        ELSE Put(common, "dof", ResultOf("dof", data, paired))

\* C30: inferplot BetweenStats keeps its results on the class: summary()
\* raises RuntimeError until some fit() has completed; after a fit() that
\* completes, every result attribute readable from the class (is_ANOVA,
\* name, dof, dof_between, dof_within, statistic, pvalue, n_cat, n_obs,
\* expression) describes that fit, none being left over from an earlier fit
\* with another number of groups; and a fit() that raises changes none of
\* them.
C30_ClassResults ==
    [][/\ call'.op = "BetweenStats.summary" =>
            /\ raised' = Exc("RuntimeError", MsgMustFit)
                   <=> "fit returned" \notin history
            /\ Results(self') = Results(self)
       /\ (call'.op = "BetweenStats.fit" /\ raised' = NoExc) =>
            Results(self') = ResultsOf(call'.data, call'.paired)
       /\ (call'.op = "BetweenStats.fit" /\ raised' # NoExc) =>
            Results(self') = Results(self)
      ]_vars

\* A fit of three groups that completed after a fit of two groups: dof, the
\* degrees of freedom of the t-test, is still on the class.
C30_Witness ==
    /\ call.op = "BetweenStats.fit" /\ raised = NoExc
    /\ call.data.n_cat = 3
    /\ self["is_ANOVA"] /\ self["name"] = "One-way ANOVA"
    /\ HasAttr(self, "dof") /\ self["dof"][2].n_cat = 2

\* A paired fit of three groups that raised after a fit of two groups
\* completed: is_ANOVA is True, the other results are those of the t-test.
C30_RaisedFitChanged ==
    /\ call.op = "BetweenStats.fit"
    /\ raised = Exc("NotImplementedError", MsgRepeated)
    /\ "fit returned" \in history
    /\ self["is_ANOVA"] /\ self["n_cat"] = 2 /\ self["name"] = "T-test"

\* What holds of C30: summary() raises RuntimeError exactly until a fit()
\* has completed and changes nothing; the attributes that a completed fit
\* assigns describe it; a fit that raises changes at most is_ANOVA.
C30_SummaryAndAssigned ==
    [][/\ call'.op = "BetweenStats.summary" =>
            /\ raised' = Exc("RuntimeError", MsgMustFit)
                   <=> "fit returned" \notin history
            /\ self' = self
       /\ (call'.op = "BetweenStats.fit" /\ raised' = NoExc) =>
            LET expected == ResultsOf(call'.data, call'.paired)
            IN  \A a \in DOMAIN expected : self'[a] = expected[a]
       /\ (call'.op = "BetweenStats.fit" /\ raised' # NoExc) =>
            \A a \in DOMAIN self \ {"is_ANOVA"} : self'[a] = self[a]
      ]_vars

====
